---------------------------- MODULE Spec2Model ----------------------------
(***************************************************************************)
(* State-machine model of virtManager/connection.py: the _ObjectList       *)
(* registry and the vmmConnection lifecycle, tick and initial-population   *)
(* machinery.                                                              *)
(***************************************************************************)
EXTENDS Integers, Sequences, FiniteSets, TLC

(***************************************************************************)
(* Bounds of the model.                                                    *)
(***************************************************************************)
NumThreads == 2      \* SpecRegistry: threads calling into one _ObjectList
NumIds == 2          \* SpecRegistry: distinct instances per (class, connkey)
NumKeys == 1         \* connkeys per class that the host may report
MaxOpens == 1        \* Spec: open() calls that start a connect thread
MaxReopens == 2      \* SpecReopen: open() calls that start a connect thread
MaxTicks == 1        \* passes requested by the scheduler besides initial ones
MaxPolls == 5        \* SpecPoll: passes requested by the scheduler
HistoryLength == 1   \* config.get_stats_history_length()

(***************************************************************************)
(* Program constants.                                                      *)
(***************************************************************************)
BLACKLIST_COUNT == 3

Classes == {"vm", "net", "pool", "iface", "nodedev"}
\* the order in which _poll visits the classes
ClassOrder == <<"vm", "net", "pool", "iface", "nodedev">>
\* classes with a using_*_events flag
EvClasses == {"vm", "net", "pool", "nodedev"}
\* classes with an is_*_capable probe
CapClasses == {"net", "pool", "iface", "nodedev"}

Keys == 1..NumKeys
\* the connkeys of a host that has one object more than that
HostKeys == 1..(NumKeys + 1)
AllKeys == Classes \X HostKeys
Opens == 1..(IF MaxOpens > MaxReopens THEN MaxOpens ELSE MaxReopens)

VARIABLES
    objects,      \* _ObjectList._objects: the list of tracked objects
    blacklist,    \* _ObjectList._blacklist: key -> count, 0 for an absent key
    lock,         \* _ObjectList._lock: 0 when free, else the holding thread
    rthr,         \* SpecRegistry: per thread, the _ObjectList call it runs
    state,        \* vmmConnection._state
    closing,      \* vmmConnection._closing
    backendOpen,  \* whether self._backend holds an open session
    usingEvents,  \* using_domain_events, using_network_events, ...
    cbIds,        \* _domain_cb_ids, _network_cb_ids, ...: handles per class
    deregFailed,  \* history: a deregistration call raised in the latest close()
    capable,      \* _network_capable, ...: "none" until probed
    initEvent,    \* _init_object_event: 0 for None, else the event of that open
    initCount,    \* _init_object_count: <<>> for None, else <<n>>
    evFlag,       \* per threading.Event created by an open: its flag
    othr,         \* per open(): the background connect thread
    mainQ,        \* callbacks queued on the main context (idle_add, idle_emit)
    tickReq,      \* initial ticks requested by _populate_initial_state
    tick,         \* the tick thread: the pass in flight
    nticks,       \* number of passes started so far
    initThreads,  \* initializer threads started by _poll
    stats,        \* vmmConnection._stats, newest first
    emitted,      \* signals emitted by the latest step
    call,         \* the latest call of a vector accessor or of
                  \* rename_object, with its result: <<>> or <<record>>
    unreported,   \* history: per open, counted new objects not yet reported
    failStreak,   \* history: per entity, consecutive failed initializations
    closeReq      \* history: a close was requested and no open() followed

regvars == <<objects, blacklist, lock, rthr>>
connvars == <<call, state, closing, backendOpen, usingEvents, cbIds, deregFailed, capable, initEvent,
              initCount, evFlag, othr, mainQ, tickReq, tick, nticks,
              initThreads, stats, emitted, unreported, failStreak, closeReq>>
vars == <<objects, blacklist, lock, rthr, call, state, closing, backendOpen,
          usingEvents, cbIds, deregFailed, capable, initEvent, initCount, evFlag, othr, mainQ,
          tickReq, tick, nticks, initThreads, stats, emitted, unreported,
          failStreak, closeReq>>

(***************************************************************************)
(* Tracked objects.  An object is an instance (id) of a class with a       *)
(* connkey; two instances may carry the same (class, connkey).             *)
(***************************************************************************)
Obj(c, k, i) == [cls |-> c, key |-> k, id |-> i]

\* _blacklist_key: str(obj.__class__) + obj.get_connkey()
BlacklistKey(o) == <<o.cls, o.key>>

SameEntity(a, b) == a.cls = b.cls /\ a.key = b.key

\* `obj in self._objects`: membership by identity
InList(objs, o) == \E i \in 1..Len(objs) : objs[i] = o

\* the scan of add(): some tracked object has the class and connkey of o
HasEntity(objs, o) == \E i \in 1..Len(objs) : SameEntity(objs[i], o)

\* list.remove(obj): drops the first occurrence
RECURSIVE RemoveFirst(_, _)
RemoveFirst(objs, o) ==
    IF objs = <<>> THEN <<>>
    ELSE IF Head(objs) = o THEN Tail(objs)
    ELSE <<Head(objs)>> \o RemoveFirst(Tail(objs), o)

\* in_blacklist
in_blacklist(bl, o) == bl[BlacklistKey(o)] > BLACKLIST_COUNT

\* an add_blacklist that counts the failures
add_blacklist_counting(bl, o) ==
    [bl EXCEPT ![BlacklistKey(o)] = bl[BlacklistKey(o)] + 1]

\* add_blacklist: the new dictionary; the returned count is the new entry
add_blacklist(bl, o) ==
    LET key == BlacklistKey(o)
        bumped == IF in_blacklist(bl, o)
                  THEN [bl EXCEPT ![key] = bl[key] + 1] ELSE bl
    IN  [bumped EXCEPT ![key] = 1]

\* a remove_blacklist that reports an entry whether or not there was one
remove_blacklist_any(bl, o) == TRUE

\* remove_blacklist: the new dictionary and the returned flag
remove_blacklist(bl, o) == [bl EXCEPT ![BlacklistKey(o)] = 0]
remove_blacklist_ret(bl, o) == bl[BlacklistKey(o)] # 0

\* remove(), whole body as run under the lock
ListRemove(objs, o) == IF InList(objs, o) THEN RemoveFirst(objs, o) ELSE objs
ListRemoveBl(objs, bl, o) == IF InList(objs, o) THEN bl ELSE remove_blacklist(bl, o)
ListRemoveRet(objs, bl, o) ==
    IF InList(objs, o) THEN TRUE ELSE remove_blacklist_ret(bl, o)

\* add(), whole body as run under the lock
\* an add() that reports success whatever the list holds
ListAddRetAlways(objs, o) == TRUE

ListAddRet(objs, o) == ~HasEntity(objs, o) /\ ~InList(objs, o)
ListAdd(objs, o) == IF ListAddRet(objs, o) THEN Append(objs, o) ELSE objs

\* get_objects_for_class
ObjectsForClass(objs, c) == SelectSeq(objs, LAMBDA o : o.cls = c)

Range(s) == {s[i] : i \in 1..Len(s)}


(***************************************************************************)
(* vmmConnection: signals, the main-context queue and the helpers of the   *)
(* handlers that run on the main context.                                  *)
(***************************************************************************)
StateChanged == [sig |-> "state-changed"]
Added(o) == [sig |-> "added", obj |-> o]
Removed(o) == [sig |-> "removed", obj |-> o]
Cleanup(o) == [sig |-> "cleanup", obj |-> o]
OpenCompleted(i, err) == [sig |-> "open-completed", thr |-> i, err |-> err]
VmRenamed(old, new) == [sig |-> "vm-renamed", old |-> old, new |-> new]

\* the payloads of open-completed: no error, the error of setKeepAlive,
\* another error
OpenErrors == {"none", "keepalive", "error"}

\* queued callbacks
CbChangeState(new) == [kind |-> "change_state", new |-> new]
CbOpenCompleted(i, err) == [kind |-> "open_completed", thr |-> i, err |-> err]
CbGone(objs) == [kind |-> "gone", objs |-> objs]
CbNewObject(o, failed) == [kind |-> "new_object", obj |-> o, failed |-> failed]
CbClose == [kind |-> "close"]

NoBlacklist == [k \in AllKeys |-> 0]

\* _change_state: the signals it emits
ChangeStateSignals(new) == IF state # new THEN <<StateChanged>> ELSE <<>>

\* threading.Event.set(): the threads blocked in wait() on event e resume
Woken(thr, e) ==
    [i \in Opens |-> IF thr[i].pc = "blocked" /\ thr[i].waitOn = e
                     THEN [thr[i] EXCEPT !.pc = "woken"] ELSE thr[i]]

\* the loop of _gone_object_signals over gone_objects
RECURSIVE GoneLoop(_, _, _, _)
GoneLoop(gone, objs, bl, sigs) ==
    IF gone = <<>> THEN [objs |-> objs, bl |-> bl, sigs |-> sigs]
    ELSE LET o == Head(gone) IN
         GoneLoop(Tail(gone), ListRemove(objs, o), ListRemoveBl(objs, bl, o),
                  IF ListRemoveRet(objs, bl, o)
                  THEN sigs \o <<Removed(o), Cleanup(o)>> ELSE sigs)

\* a close() that drops the objects without signalling them
CloseLoopSilent(objs) == <<>>

\* the loop of close() over self._objects.all_objects()
RECURSIVE CloseLoop(_)
CloseLoop(objs) ==
    IF objs = <<>> THEN <<>>
    ELSE <<Removed(Head(objs)), Cleanup(Head(objs))>> \o CloseLoop(Tail(objs))

\* the countdown of _new_object_cb's finally clause
CountAfterReport == IF initEvent # 0 THEN <<initCount[1] - 1>> ELSE initCount
ReleaseOnReport == initEvent # 0 /\ CountAfterReport[1] <= 0

Min(a, b) == IF a < b THEN a ELSE b

(***************************************************************************)
(* Handlers on the main context.  Each runs to completion before the next. *)
(***************************************************************************)

\* _schedule_close, from any thread
ScheduleClose(queue) == Append(queue, CbClose)

\* the handle lists before any registration
NoHandles == [c \in EvClasses |-> <<>>]

\* close(): a deregistration call can raise only when the backend is open
\* and some handle is registered, lines 944-952
DeregCanRaise == backendOpen /\ cbIds # NoHandles

\* a close() that keeps the handles when a deregistration call raised
HandlesKeptOnFailure(ids, raised) == IF raised THEN ids ELSE NoHandles

\* close(): the handle lists after the try statement, whose finally clause
\* empties them, lines 956-960
HandlesAfterClose(ids, raised) == NoHandles

\* close(): lines 938-983
CloseBody(deregs) ==
    /\ \E raises \in deregs :
          /\ deregFailed' = (raises /\ DeregCanRaise)
          /\ cbIds' = HandlesAfterClose(cbIds, raises /\ DeregCanRaise)
    /\ emitted' = CloseLoop(objects) \o ChangeStateSignals("disconnected")
    /\ objects' = <<>>
    /\ blacklist' = NoBlacklist
    /\ stats' = <<>>
    /\ evFlag' = IF initEvent # 0 THEN [evFlag EXCEPT ![initEvent] = FALSE]
                 ELSE evFlag
    /\ backendOpen' = FALSE
    /\ state' = "disconnected"
    /\ closing' = FALSE
    /\ closeReq' = TRUE
    /\ failStreak' = [k \in AllKeys |-> 0]
    /\ UNCHANGED <<lock, rthr, call, usingEvents, capable, initEvent, initCount,
                   othr, tickReq, tick, nticks, initThreads, unreported>>

\* close() called directly on the main context
Close(deregs) ==
    /\ CloseBody(deregs)
    /\ mainQ' = mainQ

\* close() delivered from the queue (_schedule_close)
DeliverClose(deregs) ==
    /\ mainQ # <<>>
    /\ Head(mainQ).kind = "close"
    /\ CloseBody(deregs)
    /\ mainQ' = Tail(mainQ)

\* a test that lets open() through unless the connection is active
IsNotActive == state # "active"

\* is_disconnected()
IsDisconnected == state = "disconnected"

\* open(): lines 995-1003
Open(maxOpens) ==
    /\ IF ~IsDisconnected
       THEN /\ emitted' = <<>>
            /\ UNCHANGED <<state, othr, closeReq>>
       ELSE /\ \E i \in 1..maxOpens :
                  /\ othr[i].pc = "unborn"
                  /\ \A j \in Opens : j < i => othr[j].pc # "unborn"
                  /\ othr' = [othr EXCEPT ![i].pc = "do_open"]
            /\ state' = "connecting"
            /\ emitted' = <<StateChanged>>
            /\ closeReq' = FALSE
    /\ UNCHANGED <<objects, blacklist, lock, rthr, call, closing, backendOpen,
                   usingEvents, cbIds, deregFailed, capable, initEvent, initCount, evFlag, mainQ,
                   tickReq, tick, nticks, initThreads, stats, unreported,
                   failStreak>>

\* the queued _change_state(newstate)
DeliverChangeState ==
    /\ mainQ # <<>>
    /\ Head(mainQ).kind = "change_state"
    /\ state' = Head(mainQ).new
    /\ emitted' = ChangeStateSignals(Head(mainQ).new)
    /\ mainQ' = Tail(mainQ)
    /\ UNCHANGED <<objects, blacklist, lock, rthr, call, closing, backendOpen,
                   usingEvents, cbIds, deregFailed, capable, initEvent, initCount, evFlag, othr,
                   tickReq, tick, nticks, initThreads, stats, unreported,
                   failStreak, closeReq>>

\* the queued emit of open-completed
DeliverOpenCompleted ==
    /\ mainQ # <<>>
    /\ Head(mainQ).kind = "open_completed"
    /\ emitted' = <<OpenCompleted(Head(mainQ).thr, Head(mainQ).err)>>
    /\ mainQ' = Tail(mainQ)
    /\ UNCHANGED <<objects, blacklist, lock, rthr, call, state, closing, backendOpen,
                   usingEvents, cbIds, deregFailed, capable, initEvent, initCount, evFlag, othr,
                   tickReq, tick, nticks, initThreads, stats, unreported,
                   failStreak, closeReq>>

\* the queued _gone_object_signals(gone_objects): lines 1118-1141
DeliverGone ==
    /\ mainQ # <<>>
    /\ Head(mainQ).kind = "gone"
    /\ LET r == GoneLoop(Head(mainQ).objs, objects, blacklist, <<>>) IN
       IF ~backendOpen
       THEN /\ emitted' = <<>>
            /\ UNCHANGED <<objects, blacklist>>
       ELSE /\ emitted' = r.sigs
            /\ objects' = r.objs
            /\ blacklist' = r.bl
    /\ mainQ' = Tail(mainQ)
    /\ UNCHANGED <<lock, rthr, call, state, closing, backendOpen, usingEvents, cbIds, deregFailed,
                   capable, initEvent, initCount, evFlag, othr, tickReq, tick,
                   nticks, initThreads, stats, unreported, failStreak,
                   closeReq>>

\* _new_object_cb(obj, initialize_failed): lines 1143-1184
DeliverNewObject ==
    /\ mainQ # <<>>
    /\ Head(mainQ).kind = "new_object"
    /\ LET o == Head(mainQ).obj
           failed == Head(mainQ).failed
       IN
       /\ IF ~backendOpen
          THEN /\ emitted' = <<>>
               /\ UNCHANGED <<objects, blacklist, initCount, evFlag, othr,
                              failStreak>>
          ELSE /\ IF failed
                  THEN /\ blacklist' = add_blacklist(blacklist, o)
                       /\ objects' = objects
                       /\ emitted' = <<>>
                  ELSE /\ blacklist' = remove_blacklist(blacklist, o)
                       /\ objects' = ListAdd(objects, o)
                       /\ emitted' = IF ListAddRet(objects, o)
                                     THEN <<Added(o)>> ELSE <<>>
               /\ initCount' = CountAfterReport
               /\ IF ReleaseOnReport
                  THEN /\ evFlag' = [evFlag EXCEPT ![initEvent] = TRUE]
                       /\ othr' = Woken(othr, initEvent)
                  ELSE UNCHANGED <<evFlag, othr>>
               /\ failStreak' = [failStreak EXCEPT ![BlacklistKey(o)] =
                                    IF failed
                                    THEN Min(@ + 1, BLACKLIST_COUNT + 1)
                                    ELSE 0]
       /\ unreported' = [i \in Opens |-> unreported[i] \ {o}]
    /\ mainQ' = Tail(mainQ)
    /\ UNCHANGED <<lock, rthr, call, state, closing, backendOpen, usingEvents, cbIds, deregFailed,
                   capable, initEvent, tickReq, tick, nticks, initThreads,
                   stats, closeReq>>

(***************************************************************************)
(* The background connect thread: _open_thread, lines 1084-1099.           *)
(***************************************************************************)
\* code: libvirt_error_code of the exception of _backend.open(), "none"
\* while it has not raised
NoThread == [pc |-> "unborn", waitOn |-> 0, code |-> "none"]

\* outcomes of the calls of _add_conn_events: whether the connection
\* supports events at all and, per class, whether the registration of its
\* lifecycle callback and of its auxiliary callbacks (domain: the five XML
\* and agent events; pool: refresh; node device: update) succeeds
RegOutcomes ==
    [works : BOOLEAN, vm : BOOLEAN, vmAux : BOOLEAN, net : BOOLEAN,
     pool : BOOLEAN, poolAux : BOOLEAN, nodedev : BOOLEAN,
     nodedevAux : BOOLEAN]

\* the events _add_domain_xml_event is called for: lines 869-874
DomainXmlEvents ==
    <<"balloon_change", "tray_change", "device_removed", "device_added",
      "agent_lifecycle">>

\* a try block that registers whatever the switch says
RegistersIgnoringSwitch(force, ok) == ok

\* the head of each try block: with FORCE_DISABLE_EVENTS it raises before
\* the registration call, which otherwise succeeds or raises
Registers(force, ok) == ~force /\ ok

\* the pool and node device blocks register two callbacks and then set the
\* flag: lines 898-904 and 916-923
RegistersBoth(force, ok, aux) == Registers(force, ok) /\ aux

\* _add_conn_events: the using_*_events flags, lines 836-927
AddConnEvents(force, using, reg) ==
    IF ~reg.works THEN using
    ELSE [c \in EvClasses |->
            CASE c = "vm" -> Registers(force, reg.vm)
              [] c = "net" ->
                   IF RegistersBoth(force, reg.nodedev, reg.nodedevAux)
                   THEN Registers(force, reg.net) ELSE FALSE
              [] c = "pool" -> RegistersBoth(force, reg.pool, reg.poolAux)
              [] c = "nodedev" ->
                   IF RegistersBoth(force, reg.nodedev, reg.nodedevAux)
                   THEN TRUE ELSE using["nodedev"]]

\* _add_conn_events: the handles appended to the _*_cb_ids lists
AddConnHandles(force, ids, reg) ==
    IF ~reg.works THEN ids
    ELSE [c \in EvClasses |->
            ids[c] \o
            CASE c = "vm" ->
                   IF Registers(force, reg.vm)
                   THEN <<"lifecycle">> \o
                        (IF reg.vmAux THEN DomainXmlEvents ELSE <<>>)
                   ELSE <<>>
              [] c = "net" ->
                   IF Registers(force, reg.net) THEN <<"lifecycle">> ELSE <<>>
              [] c = "pool" ->
                   IF Registers(force, reg.pool)
                   THEN <<"lifecycle">> \o
                        (IF reg.poolAux THEN <<"refresh">> ELSE <<>>)
                   ELSE <<>>
              [] c = "nodedev" ->
                   IF Registers(force, reg.nodedev)
                   THEN <<"lifecycle">> \o
                        (IF reg.nodedevAux THEN <<"update">> ELSE <<>>)
                   ELSE <<>>]

\* a call on the backend raises when the session is closed, and may raise
\* when the host dropped it
HostCallRaises(f) == ~backendOpen \/ f

\* the except branch of _open_thread: _schedule_close and the error payload
OpenRaisedWith(i, err) ==
    /\ closing' = TRUE
    /\ closeReq' = TRUE
    /\ mainQ' = Append(ScheduleClose(mainQ), CbOpenCompleted(i, err))
    /\ othr' = [othr EXCEPT ![i].pc = "done"]

OpenRaised(i) == OpenRaisedWith(i, "error")

\* what _backend.open() does: it returns, or raises an error whose code is
\* VIR_ERR_AUTH_CANCELLED, or raises another exception
OpenOutcomes == {"none", "auth_cancelled", "other"}

\* a _do_open that builds a connect error for every exception
ConnectErrorAlways(code) == "error"

\* _do_open: the second value it returns after an exception, lines 1022-1038
ConnectErrorOf(code) == IF code = "auth_cancelled" THEN "none" ELSE "error"

\* _do_open: lines 1005-1038, and for a failed open the rest of the thread
OpenDoOpen(i) ==
    /\ othr[i].pc = "do_open"
    /\ \E code \in OpenOutcomes :
          IF code = "none"
          THEN /\ backendOpen' = TRUE
               /\ othr' = [othr EXCEPT ![i].pc = "populate"]
               /\ mainQ' = mainQ
          ELSE /\ backendOpen' = backendOpen
               /\ othr' = [othr EXCEPT ![i].pc = "done", ![i].code = code]
               /\ mainQ' = mainQ \o
                     <<CbChangeState("disconnected"),
                       CbOpenCompleted(i, ConnectErrorOf(code))>>
    /\ emitted' = <<>>
    /\ UNCHANGED <<objects, blacklist, lock, rthr, call, state, closing,
                   usingEvents, cbIds, deregFailed, capable, initEvent, initCount, evFlag,
                   tickReq, tick, nticks, initThreads, stats, unreported,
                   failStreak, closeReq>>

\* setKeepAlive: it succeeds, or raises for lack of support (an
\* AttributeError or a no-support error), or raises another error
KeepAliveOutcomes == {"ok", "nosupport", "error"}

\* lines 1058-1065: the exceptions of setKeepAlive that are raised again
KeepAliveRaises(k) == k = "error"

\* _populate_initial_state up to the request of the initial tick:
\* lines 1040-1078.  The version queries are calls on the backend; the
\* failure of build_default_pool is caught and changes nothing
OpenPopulate(i, regs, force) ==
    /\ othr[i].pc = "populate"
    /\ IF HostCallRaises(FALSE)
       THEN /\ OpenRaised(i)
            /\ UNCHANGED <<usingEvents, cbIds, initEvent, initCount, evFlag,
                           tickReq>>
       ELSE \E reg \in regs, keepalive \in KeepAliveOutcomes :
          /\ usingEvents' = AddConnEvents(force, usingEvents, reg)
          /\ cbIds' = AddConnHandles(force, cbIds, reg)
          /\ IF KeepAliveRaises(keepalive)
             THEN /\ OpenRaisedWith(i, "keepalive")
                  /\ UNCHANGED <<initEvent, initCount, evFlag, tickReq>>
             ELSE /\ initEvent' = i
                  /\ evFlag' = [evFlag EXCEPT ![i] = FALSE]
                  /\ initCount' = <<0>>
                  /\ tickReq' = Append(tickReq, i)
                  /\ othr' = [othr EXCEPT ![i].pc = "prewait"]
                  /\ UNCHANGED <<closing, closeReq, mainQ>>
    /\ emitted' = <<>>
    /\ UNCHANGED <<objects, blacklist, lock, rthr, call, state, backendOpen,
                   deregFailed, capable, tick, nticks, initThreads, stats,
                   unreported, failStreak>>

\* self._init_object_event.wait(): line 1080
OpenWait(i) ==
    /\ othr[i].pc = "prewait"
    /\ IF initEvent = 0
       THEN OpenRaised(i)
       ELSE /\ othr' = [othr EXCEPT
                  ![i].pc = IF evFlag[initEvent] THEN "woken" ELSE "blocked",
                  ![i].waitOn = initEvent]
            /\ UNCHANGED <<closing, closeReq, mainQ>>
    /\ emitted' = <<>>
    /\ UNCHANGED <<objects, blacklist, lock, rthr, call, state, backendOpen,
                   usingEvents, cbIds, deregFailed, capable, initEvent, initCount, evFlag,
                   tickReq, tick, nticks, initThreads, stats, unreported,
                   failStreak>>

\* after the wait: lines 1081-1082, 1091-1092 and 1099
OpenFinish(i) ==
    /\ othr[i].pc = "woken"
    /\ initEvent' = 0
    /\ initCount' = <<>>
    /\ mainQ' = mainQ \o <<CbChangeState("active"), CbOpenCompleted(i, "none")>>
    /\ othr' = [othr EXCEPT ![i].pc = "done"]
    /\ emitted' = <<>>
    /\ UNCHANGED <<objects, blacklist, lock, rthr, call, state, closing,
                   backendOpen, usingEvents, cbIds, deregFailed, capable, evFlag, tickReq, tick,
                   nticks, initThreads, stats, unreported, failStreak,
                   closeReq>>

(***************************************************************************)
(* The tick thread: tick_from_engine and _tick, lines 1276-1348 and        *)
(* 1418-1451, with _poll, lines 1221-1274.                                 *)
(***************************************************************************)
NoTick ==
    [pc |-> "idle", id |-> 0, initial |-> FALSE, owner |-> 0,
     reqStats |-> FALSE, reqPolls |-> {}, force |-> FALSE,
     entryClosing |-> FALSE, entryState |-> "disconnected",
     afterClose |-> FALSE,
     stats |-> FALSE, polls |-> {}, idx |-> 1,
     gone |-> <<>>, pre |-> <<>>, new |-> [c \in Classes |-> <<>>],
     remote |-> [c \in Classes |-> {}],
     queried |-> FALSE, cached |-> FALSE, enumerated |-> {},
     refreshed |-> {}, errors |-> {}, sampled |-> FALSE,
     notified |-> FALSE, raised |-> FALSE,
     exc |-> [dom |-> "none", code |-> "none"], propagated |-> FALSE]

\* the keyword arguments of a pass
TickArgs(pollChoices) == [stats : BOOLEAN, polls : pollChoices, force : BOOLEAN]

\* the arguments of the initial tick: lines 1075-1078
InitialArgs == [stats |-> TRUE, polls |-> Classes, force |-> TRUE]

\* entry checks that let an unforced pass run while Connecting
EntryChecksLax(force) == ~closing /\ state # "disconnected"

\* the entry checks of _tick: lines 1287-1292
EntryChecksPass(force) ==
    /\ ~closing
    /\ state # "disconnected"
    /\ (state = "connecting" => force)

\* a stats_update that survives a pass without pollvm
StatsUpdateWithoutVm(a) == a.stats

\* lines 1296-1297
StatsUpdate(a) == a.stats /\ "vm" \in a.polls

\* an event check that ignores force
PollIgnoringForce(a) ==
    {c \in a.polls : ~(c \in EvClasses /\ usingEvents[c])}

\* lines 1299-1306: the classes still polled after the event check
PollAfterEvents(a) ==
    {c \in a.polls : (c \in EvClasses /\ usingEvents[c]) => a.force}

\* obj.reports_stats(): the objects fed to _recalculate_stats are the VMs
ReportsStats(o) == o.cls = "vm"

\* a loop that calls obj.tick() on every pre-existing object
RefreshesAll(t, o) == TRUE

\* lines 1320-1331: whether the loop calls obj.tick() on a pre-existing object
Refreshes(t, o) == (ReportsStats(o) /\ t.stats) \/ o.cls \in t.polls

\* tick_from_engine called with keyword arguments a
TickBegin(a, id, initial, owner) ==
    LET pass == EntryChecksPass(a.force) IN
    tick' = [NoTick EXCEPT
               !.pc = IF pass THEN "info" ELSE "done",
               !.id = id, !.initial = initial, !.owner = owner,
               !.reqStats = a.stats, !.reqPolls = a.polls, !.force = a.force,
               !.entryClosing = closing, !.entryState = state,
               !.afterClose = closeReq,
               !.stats = pass /\ StatsUpdate(a),
               !.polls = IF pass THEN PollAfterEvents(a) ELSE {}]

\* a pass requested by the scheduler
TickEnv(argset, maxTicks) ==
    /\ tick.pc = "idle"
    /\ nticks < maxTicks
    /\ \E a \in argset : TickBegin(a, nticks + 1, FALSE, 0)
    /\ nticks' = nticks + 1
    /\ emitted' = <<>>
    /\ UNCHANGED <<objects, blacklist, lock, rthr, call, state, closing,
                   backendOpen, usingEvents, cbIds, deregFailed, capable, initEvent, initCount,
                   evFlag, othr, mainQ, tickReq, initThreads, stats,
                   unreported, failStreak, closeReq>>

\* the initial tick requested by _populate_initial_state
TickInitial ==
    /\ tick.pc = "idle"
    /\ tickReq # <<>>
    /\ TickBegin(InitialArgs, 0 - Head(tickReq), TRUE, Head(tickReq))
    /\ tickReq' = Tail(tickReq)
    /\ emitted' = <<>>
    /\ UNCHANGED <<objects, blacklist, lock, rthr, call, state, closing,
                   backendOpen, usingEvents, cbIds, deregFailed, capable, initEvent, initCount,
                   evFlag, othr, mainQ, nticks, initThreads, stats,
                   unreported, failStreak, closeReq>>

\* the exceptions that escape _tick, by get_error_domain() and
\* get_error_code(); "other" stands for any other value, and for the -1 of
\* an exception that is not a libvirtError
ErrDomains == {"remote", "rpc", "other"}
ErrCodes == {"system_error", "internal_error", "other"}
LibvirtErrors == [dom : ErrDomains, code : ErrCodes]
NotLibvirtError == [dom |-> "other", code |-> "other"]
\* exceptions that are not libvirt errors
PlainErrors == {NotLibvirtError}

\* a test that goes by the error code alone
SuppressedByCode(exc) == exc.code \in {"system_error", "internal_error"}

\* lines 1443-1447: the errors that are not raised to the caller
Suppressed(exc) ==
    /\ exc.dom \in {"remote", "rpc"}
    /\ exc.code \in {"system_error", "internal_error"}

\* an exception of errs escapes _tick: tick_from_engine calls
\* _schedule_close and raises the exception unless it is suppressed,
\* lines 1422-1451
TickRaise(t, errs) ==
    /\ \E exc \in errs :
          tick' = [t EXCEPT !.pc = "done", !.raised = TRUE, !.exc = exc,
                            !.propagated = ~Suppressed(exc)]
    /\ closing' = TRUE
    /\ closeReq' = TRUE
    /\ mainQ' = ScheduleClose(mainQ)

\* lines 1308-1310
TickInfo(fails, errs) ==
    /\ tick.pc = "info"
    /\ \E f \in fails :
          IF HostCallRaises(f)
          THEN TickRaise([tick EXCEPT !.queried = TRUE], errs)
          ELSE /\ tick' = [tick EXCEPT !.pc = "poll", !.queried = TRUE,
                                       !.cached = tick.stats]
               /\ UNCHANGED <<closing, closeReq, mainQ>>
    /\ emitted' = <<>>
    /\ UNCHANGED <<objects, blacklist, lock, rthr, call, state, backendOpen,
                   usingEvents, cbIds, deregFailed, capable, initEvent, initCount, evFlag, othr,
                   tickReq, nticks, initThreads, stats, unreported,
                   failStreak>>

KeySeq(S) == SelectSeq([k \in HostKeys |-> k], LAMBDA k : k \in S)
KeysOf(objs) == {objs[i].key : i \in 1..Len(objs)}

\* pollhelpers.fetch_*: the objects of keymap the host no longer reports,
\* new objects for the reported keys that keymap lacks, and the current ones
FetchGone(local, R) == SelectSeq(local, LAMBDA o : o.key \notin R)
FetchNew(local, R, c, id) ==
    LET ks == KeySeq(R \ KeysOf(local)) IN
    [j \in 1..Len(ks) |-> Obj(c, ks[j], id)]
FetchExisting(local, R) == SelectSeq(local, LAMBDA o : o.key \in R)
\* the third list pollhelpers.fetch_* returns: every object the host reports,
\* the current ones and the new ones
FetchMaster(local, R, c, id) == FetchExisting(local, R) \o FetchNew(local, R, c, id)

\* a filter that keeps the new objects among the pre-existing ones
PreexistingWithNew(master, new) == master

\* line 1237: [o for o in master if o not in new]
PreexistingObjects(master, new) == SelectSeq(master, LAMBDA o : ~InList(new, o))

\* is_*_capable: the cached answer, probed on first use
CapableAfter(c, dopoll, p) ==
    IF c \in CapClasses /\ dopoll /\ capable[c] = "none"
    THEN [capable EXCEPT ![c] = IF p THEN "yes" ELSE "no"]
    ELSE capable

\* an _update_* that enumerates whatever the capability probe said
EnumeratesUnprobed(c, dopoll, cap) == dopoll

\* _update_*: whether the class is enumerated on the host
Enumerates(c, dopoll, cap) == dopoll /\ (c \in CapClasses => cap[c] = "yes")

\* new = [n for n in new if not self._objects.in_blacklist(n)]
NotBlacklisted(new) == SelectSeq(new, LAMBDA o : ~in_blacklist(blacklist, o))

\* one class of _poll: _update_<class>(dopoll) and _process_objects,
\* lines 1186-1245
TickPollClass(reports, probes, fails, errs) ==
    /\ tick.pc = "poll"
    /\ LET c == ClassOrder[tick.idx]
           dopoll == c \in tick.polls
           local == ObjectsForClass(objects, c)
       IN
       \E p \in probes, f \in fails, R \in reports[c] :
          LET cap == CapableAfter(c, dopoll, p)
              enum == Enumerates(c, dopoll, cap)
              gone == IF enum THEN FetchGone(local, R) ELSE <<>>
              new == IF enum THEN FetchNew(local, R, c, tick.id) ELSE <<>>
              master == IF enum THEN FetchMaster(local, R, c, tick.id) ELSE local
              existing == PreexistingObjects(master, new)
              seen == [tick EXCEPT
                         !.enumerated = IF enum THEN @ \cup {c} ELSE @,
                         !.remote[c] = IF enum THEN R ELSE @]
          IN
          /\ capable' = cap
          /\ IF (enum /\ HostCallRaises(f)) \/ (tick.initial /\ initCount = <<>>)
             THEN /\ TickRaise(seen, IF enum /\ HostCallRaises(f)
                                      THEN errs
                                      ELSE {NotLibvirtError})
                  /\ UNCHANGED <<initCount, unreported>>
             ELSE /\ tick' = [seen EXCEPT
                        !.gone = @ \o gone,
                        !.pre = @ \o existing,
                        !.new[c] = NotBlacklisted(new),
                        !.idx = IF tick.idx < Len(ClassOrder) THEN @ + 1 ELSE @,
                        !.pc = IF tick.idx < Len(ClassOrder) THEN "poll"
                               ELSE "spawn"]
                  /\ initCount' = IF tick.initial
                                  THEN <<initCount[1] + Len(new)>>
                                  ELSE initCount
                  /\ unreported' =
                        IF tick.initial
                        THEN [unreported EXCEPT ![tick.owner] = @ \cup Range(new)]
                        ELSE unreported
                  /\ UNCHANGED <<closing, closeReq, mainQ>>
    /\ emitted' = <<>>
    /\ UNCHANGED <<objects, blacklist, lock, rthr, call, state, backendOpen,
                   usingEvents, cbIds, deregFailed, initEvent, evFlag, othr, tickReq, nticks,
                   initThreads, stats, failStreak>>

\* one initializer thread per new object
SpawnedPerObject(t) ==
    {[cls |-> o.cls, tick |-> t.id, todo |-> <<o>>] :
        o \in UNION {{t.new[c][j] : j \in 1..Len(t.new[c])} : c \in Classes}}

\* the initializer threads _poll starts: one per class with new objects
SpawnedThreads(t) ==
    {[cls |-> c, tick |-> t.id, todo |-> t.new[c]] :
        c \in {d \in Classes : t.new[d] # <<>>}}

\* the end of _poll, lines 1255-1274, and line 1314
TickSpawn ==
    /\ tick.pc = "spawn"
    /\ IF tick.initial /\ initCount = <<0>>
       THEN /\ evFlag' = [evFlag EXCEPT ![initEvent] = TRUE]
            /\ othr' = Woken(othr, initEvent)
       ELSE UNCHANGED <<evFlag, othr>>
    /\ initThreads' = initThreads \cup SpawnedThreads(tick)
    /\ mainQ' = IF tick.gone # <<>> THEN Append(mainQ, CbGone(tick.gone))
                ELSE mainQ
    /\ tick' = [tick EXCEPT !.pc = "refresh"]
    /\ emitted' = <<>>
    /\ UNCHANGED <<objects, blacklist, lock, rthr, call, state, closing,
                   backendOpen, usingEvents, cbIds, deregFailed, capable, initEvent, initCount,
                   tickReq, nticks, stats, unreported, failStreak, closeReq>>

\* the loop over preexisting_objects: lines 1318-1343
ToRefresh(t) == SelectSeq(t.pre, LAMBDA o : Refreshes(t, o))

\* what obj.tick() does for one object: it returns, raises an error that is
\* not a system error, raises a system error after which the getInfo probe
\* answers, or raises a system error after which the probe raises too
RefreshOutcomes == {"ok", "error", "system_error", "dropped"}

\* the probe is a call on the backend: it raises when the session is closed
RefreshOutcomesNow(outs) ==
    IF backendOpen THEN outs ELSE (outs \ {"system_error"}) \cup {"dropped"}

\* a loop that lets every exception of obj.tick() escape
AbortsOnAnyError(outcome) == outcome # "ok"

\* lines 1334-1343: the exception handler lets an exception escape only
\* from the probe it makes after a system error
AbortsPass(outcome) == outcome = "dropped"

\* the loop: the objects obj.tick() was called on, and whether an exception
\* escaped
RECURSIVE RefreshLoop(_, _, _)
RefreshLoop(todo, out, called) ==
    IF todo = <<>> THEN [called |-> called, raised |-> FALSE]
    ELSE IF AbortsPass(out[Head(todo)])
         THEN [called |-> Append(called, Head(todo)), raised |-> TRUE]
         ELSE RefreshLoop(Tail(todo), out, Append(called, Head(todo)))

\* the exceptions logged by the loop: object and outcome
LoggedErrors(called, out) ==
    {<<o, out[o]>> : o \in {c \in Range(called) : out[c] # "ok"}}

TickRefresh(outs, errs) ==
    /\ tick.pc = "refresh"
    /\ \E out \in [Range(ToRefresh(tick)) -> RefreshOutcomesNow(outs)] :
          LET r == RefreshLoop(ToRefresh(tick), out, <<>>)
              after == [tick EXCEPT !.refreshed = Range(r.called),
                                    !.errors = LoggedErrors(r.called, out)]
          IN
          IF r.raised
          THEN TickRaise(after, errs)
          ELSE /\ tick' = [after EXCEPT !.pc = "stats"]
               /\ UNCHANGED <<closing, closeReq, mainQ>>
    /\ emitted' = <<>>
    /\ UNCHANGED <<objects, blacklist, lock, rthr, call, state, backendOpen,
                   usingEvents, cbIds, deregFailed, capable, initEvent, initCount, evFlag, othr,
                   tickReq, nticks, initThreads, stats, unreported,
                   failStreak>>

\* the inputs of _recalculate_stats: the sums of stats_memory() and
\* cpu_time() over the active VMs, the time since the previous sample,
\* host_memory_size() and host_active_processor_count().  Times are in
\* seconds: the factor 1000.0 * 1000.0 * 1000.0 of line 1392 converts the
\* nanoseconds of cpu_time()
StatInputs ==
    [mem : {0, 1, 3}, cpuTime : {0, 1, 5}, delta : {-1, 0, 2},
     hostMem : {0, 2}, cpus : {0, 1}]

\* an idle host with memory and a processor, sampled a second later
NominalInputs ==
    {[mem |-> 0, cpuTime |-> 0, delta |-> 1, hostMem |-> 1, cpus |-> 1]}

Max(a, b) == IF a > b THEN a ELSE b

\* a / b for b # 0, rounded down
Quotient(a, b) == IF b > 0 THEN a \div b ELSE (0 - a) \div (0 - b)

\* a percentage left as computed
Unclamped(x) == x

\* max(0.0, min(100.0, x)): lines 1394-1395
Clamp(x) == Max(0, Min(100, x))

\* a history cut to one sample more than the configured length
TruncatedLate(st) ==
    IF Len(st) > HistoryLength + 1 THEN SubSeq(st, 1, HistoryLength + 1) ELSE st

\* lines 1355-1358: the history is cut to the configured length
Truncated(st) == IF Len(st) > HistoryLength THEN SubSeq(st, 1, HistoryLength) ELSE st

\* lines 1384-1392: a division by zero raises ZeroDivisionError
DividesByZero(kept, in) ==
    \/ in.hostMem = 0
    \/ (Len(kept) > 0 /\ in.delta * in.cpus = 0)

\* the record of lines 1397-1409
Sample(vms, kept, in) ==
    LET mem == IF vms = <<>> THEN 0 ELSE in.mem
        cpuTime == IF vms = <<>> THEN 0 ELSE in.cpuTime
        pcentMem == Quotient(mem * 100, in.hostMem)
        pcentHostCpu == IF Len(kept) > 0
                        THEN Quotient(cpuTime * 100, in.delta * in.cpus)
                        ELSE 0
    IN  [vms |-> Len(vms),
         memoryPercent |-> Clamp(pcentMem),
         cpuHostPercent |-> Clamp(pcentHostCpu)]

\* _recalculate_stats: lines 1350-1411
RecalculateStats(st, vms, in) ==
    IF ~backendOpen THEN [stats |-> st, raised |-> FALSE]
    ELSE LET kept == Truncated(st) IN
         IF DividesByZero(kept, in)
         THEN [stats |-> kept, raised |-> TRUE]
         ELSE [stats |-> <<Sample(vms, kept, in)>> \o kept, raised |-> FALSE]

\* lines 1345-1348
TickStats(ins) ==
    /\ tick.pc = "stats"
    /\ IF tick.stats
       THEN \E in \in ins :
               LET r == RecalculateStats(stats,
                           SelectSeq(tick.pre, LAMBDA o : ReportsStats(o)), in)
               IN
               /\ stats' = r.stats
               /\ IF r.raised
                  THEN TickRaise(tick, PlainErrors)
                  ELSE /\ tick' = [tick EXCEPT !.pc = "done",
                                               !.sampled = backendOpen,
                                               !.notified = TRUE]
                       /\ UNCHANGED <<closing, closeReq, mainQ>>
       ELSE /\ stats' = stats
            /\ tick' = [tick EXCEPT !.pc = "done"]
            /\ UNCHANGED <<closing, closeReq, mainQ>>
    /\ emitted' = <<>>
    /\ UNCHANGED <<objects, blacklist, lock, rthr, call, state,
                   backendOpen, usingEvents, cbIds, deregFailed, capable, initEvent, initCount,
                   evFlag, othr, tickReq, nticks, initThreads,
                   unreported, failStreak>>

\* the limit argument of a vector accessor: <<>> for None, else <<limit>>
Limits == {<<>>} \cup {<<n>> : n \in 0..(HistoryLength + 2)}

\* the records the vector accessors read: lines 1477-1480
VectorRecords == {"memoryPercent", "cpuHostPercent"}

\* self._stats[i][record_name] / ceil, and the 0 of line 1473
Ratio(v, ceil) == [num |-> v, den |-> ceil]
Zero == [num |-> 0, den |-> 1]

\* a length that follows the limit whatever the history length
StatsLenOfLimit(limit) == IF limit # <<>> THEN limit[1] ELSE HistoryLength + 1

\* lines 1465-1467
StatsLen(limit) ==
    IF limit # <<>> THEN Min(HistoryLength + 1, limit[1]) ELSE HistoryLength + 1

\* _vector_helper: lines 1463-1475
VectorHelper(st, name, limit) ==
    [i \in 1..StatsLen(limit) |->
        IF i <= Len(st) THEN Ratio(st[i][name], 100) ELSE Zero]

\* stats_memory_vector(limit) or host_cpu_time_vector(limit) is called
VectorCall ==
    /\ \E name \in VectorRecords, limit \in Limits :
          call' = <<[op |-> "vector", name |-> name, limit |-> limit,
                     samples |-> Len(stats),
                     vector |-> VectorHelper(stats, name, limit)]>>
    /\ emitted' = <<>>
    /\ UNCHANGED <<objects, blacklist, lock, rthr, state, closing,
                   backendOpen, usingEvents, cbIds, deregFailed, capable,
                   initEvent, initCount, evFlag, othr, mainQ, tickReq, tick,
                   nticks, initThreads, stats, unreported, failStreak,
                   closeReq>>

\* tick_from_engine returns
TickReturn ==
    /\ tick.pc = "done"
    /\ tick' = NoTick
    /\ emitted' = <<>>
    /\ UNCHANGED <<objects, blacklist, lock, rthr, call, state, closing,
                   backendOpen, usingEvents, cbIds, deregFailed, capable, initEvent, initCount,
                   evFlag, othr, mainQ, tickReq, nticks, initThreads, stats,
                   unreported, failStreak, closeReq>>

\* an initializer thread: cb(lst), lines 1265-1268.  init_libvirt_state
\* ends by reporting the object to _new_object_cb on the main context
InitStep ==
    /\ \E th \in initThreads, failed \in BOOLEAN :
          /\ mainQ' = Append(mainQ, CbNewObject(Head(th.todo), failed))
          /\ initThreads' = (initThreads \ {th}) \cup
                IF Len(th.todo) > 1 THEN {[th EXCEPT !.todo = Tail(@)]} ELSE {}
    /\ emitted' = <<>>
    /\ UNCHANGED <<objects, blacklist, lock, rthr, call, state, closing,
                   backendOpen, usingEvents, cbIds, deregFailed, capable, initEvent, initCount,
                   evFlag, othr, tickReq, tick, nticks, stats, unreported,
                   failStreak, closeReq>>

(***************************************************************************)
(* rename_object: lines 673-712.                                           *)
(***************************************************************************)
\* the calls on the host made by rename_object, each of which may raise:
\* obj.delete(), define_cb(newxml), define_cb(origxml)
RenameFailures == [delete : BOOLEAN, new : BOOLEAN, orig : BOOLEAN]

\* lines 674-682: the classes that have a define callback
RenameSupported(c) == c \in {"vm", "pool", "net"}

\* the errors rename_object raises, with the messages they carry
NoRaise == [kind |-> "none", msgs |-> {}]
ProgrammingError == [kind |-> "RuntimeError", msgs |-> {"programming error"}]
DeleteError == [kind |-> "deleteerr", msgs |-> {"deleteerr"}]
RenameError == [kind |-> "renameerr", msgs |-> {"renameerr"}]
RecoverFailed == [kind |-> "RuntimeError", msgs |-> {"renameerr", "fixerr"}]

\* lines 688-705: what the try statement raises
RenameRaises(fails) ==
    IF ~fails.new THEN NoRaise
    ELSE IF fails.orig THEN RecoverFailed ELSE RenameError

\* lines 688-695: newobj after the try statement, "none" for None
RenameNewobj(fails) ==
    IF ~fails.new THEN "new"
    ELSE IF fails.orig THEN "none" ELSE "restored"

\* a rename_object that emits whenever it has a handle
RenamedSignalsAnyHandle(o, newkey, fails) ==
    IF RenameNewobj(fails) # "none" /\ o.cls = "vm"
    THEN <<VmRenamed(o.key, IF fails.new THEN o.key ELSE newkey)>>
    ELSE <<>>

\* lines 711-712, reached when the try statement raised nothing
RenamedSignals(o, newkey, fails) ==
    IF RenameRaises(fails) = NoRaise /\ RenameNewobj(fails) # "none"
       /\ o.cls = "vm"
    THEN <<VmRenamed(o.key, newkey)>>
    ELSE <<>>

\* rename_object(obj, origxml, newxml, oldconnkey): the error raised, the
\* XML documents passed to define_cb, the handle obj is bound to and the
\* definition the host is left with
RenameResult(o, newkey, fails) ==
    IF ~RenameSupported(o.cls)
    THEN [raised |-> ProgrammingError, defines |-> <<>>,
          handle |-> "original", defined |-> "original", signals |-> <<>>]
    ELSE IF fails.delete
    THEN [raised |-> DeleteError, defines |-> <<>>,
          handle |-> "original", defined |-> "original", signals |-> <<>>]
    ELSE [raised |-> RenameRaises(fails),
          defines |-> IF fails.new THEN <<"newxml", "origxml">> ELSE <<"newxml">>,
          handle |-> IF RenameNewobj(fails) # "none" THEN RenameNewobj(fails)
                     ELSE "original",
          defined |-> CASE RenameNewobj(fails) = "new" -> "new"
                        [] RenameNewobj(fails) = "restored" -> "original"
                        [] OTHER -> "none",
          signals |-> RenamedSignals(o, newkey, fails)]

\* rename_object is called for an object and a new name
RenameObject ==
    /\ \E c \in Classes, k \in Keys, newkey \in 1..(NumKeys + 1),
          fails \in RenameFailures :
          LET o == Obj(c, k, 0)
              r == RenameResult(o, newkey, fails)
          IN
          /\ newkey # k
          /\ call' = <<[op |-> "rename", obj |-> o, newkey |-> newkey,
                        fails |-> fails, raised |-> r.raised,
                        defines |-> r.defines, handle |-> r.handle,
                        defined |-> r.defined]>>
          /\ emitted' = r.signals
    /\ UNCHANGED <<objects, blacklist, lock, rthr, state, closing,
                   backendOpen, usingEvents, cbIds, deregFailed, capable,
                   initEvent, initCount, evFlag, othr, mainQ, tickReq, tick,
                   nticks, initThreads, stats, unreported, failStreak,
                   closeReq>>

(***************************************************************************)
(* Spec: one connection with its main context, connect threads, tick       *)
(* thread and initializer threads, driven by open(), close() and the       *)
(* scheduler's passes.                                                     *)
(***************************************************************************)
ConnInit ==
    /\ state = "disconnected"
    /\ closing = FALSE
    /\ backendOpen = FALSE
    /\ usingEvents = [c \in EvClasses |-> FALSE]
    /\ cbIds = NoHandles
    /\ deregFailed = FALSE
    /\ capable = [c \in CapClasses |-> "none"]
    /\ initEvent = 0
    /\ initCount = <<>>
    /\ evFlag = [i \in Opens |-> FALSE]
    /\ othr = [i \in Opens |-> NoThread]
    /\ mainQ = <<>>
    /\ tickReq = <<>>
    /\ tick = NoTick
    /\ nticks = 0
    /\ initThreads = {}
    /\ stats = <<>>
    /\ emitted = <<>>
    /\ unreported = [i \in Opens |-> {}]
    /\ failStreak = [k \in AllKeys |-> 0]
    /\ closeReq = FALSE
    /\ call = <<>>

\* no thread is inside a call of the _ObjectList
ListIdle ==
    /\ lock = 0
    /\ rthr = [t \in 1..NumThreads |-> [pc |-> "idle", op |-> "none",
                  obj |-> Obj("vm", 1, 1), found |-> FALSE, ret |-> FALSE]]

\* _ObjectList.__init__
ListInit ==
    /\ objects = <<>>
    /\ blacklist = NoBlacklist
    /\ ListIdle

Init == ListInit /\ ConnInit

\* what the host may report on an enumeration, per class: any set of keys
\* of VMs and networks, and nothing for the other classes
MainHost == [c \in Classes |-> IF c \in {"vm", "net"} THEN SUBSET Keys ELSE {{}}]
\* the passes the scheduler requests
MainTickArgs ==
    {[stats |-> FALSE, polls |-> {"vm"}, force |-> TRUE],
     [stats |-> TRUE, polls |-> {"vm", "net"}, force |-> FALSE]}
\* event registration: every class registers, or none does
MainRegs == {r \in RegOutcomes :
               /\ r.works
               /\ \A f \in {"vmAux", "net", "pool", "poolAux", "nodedev",
                             "nodedevAux"} : r[f] = r.vm}

Next ==
    \/ Open(MaxOpens)
    \/ Close(BOOLEAN)
    \/ DeliverClose(BOOLEAN)
    \/ DeliverChangeState
    \/ DeliverOpenCompleted
    \/ DeliverGone
    \/ DeliverNewObject
    \/ \E i \in Opens : OpenDoOpen(i)
    \/ \E i \in Opens : OpenPopulate(i, MainRegs, FALSE)
    \/ \E i \in Opens : OpenWait(i)
    \/ \E i \in Opens : OpenFinish(i)
    \/ TickEnv(MainTickArgs, MaxTicks)
    \/ TickInitial
    \/ TickInfo({FALSE}, PlainErrors)
    \/ TickPollClass(MainHost, {TRUE}, {FALSE}, PlainErrors)
    \/ TickSpawn
    \/ TickRefresh({"ok"}, PlainErrors)
    \/ TickStats(NominalInputs)
    \/ TickReturn
    \/ InitStep

Spec == Init /\ [][Next]_vars

(***************************************************************************)
(* SpecReopen: the connection opened, closed and opened again, so that the *)
(* connect thread of an earlier open() may still run after a later close().*)
(***************************************************************************)
\* the host has no objects
ReopenHost == [c \in Classes |-> {{}}]
\* the pass a domain lifecycle event requests: line 752
ReopenTickArgs == {[stats |-> FALSE, polls |-> {"vm"}, force |-> TRUE]}
ReopenRegs == {r \in RegOutcomes :
                 /\ ~r.works
                 /\ \A f \in {"vm", "vmAux", "net", "pool", "poolAux",
                               "nodedev", "nodedevAux"} : r[f]}

ReopenNext ==
    \/ Open(MaxReopens)
    \/ Close({FALSE})
    \/ DeliverClose({FALSE})
    \/ DeliverChangeState
    \/ DeliverOpenCompleted
    \/ \E i \in Opens : OpenDoOpen(i)
    \/ \E i \in Opens : OpenPopulate(i, ReopenRegs, FALSE)
    \/ \E i \in Opens : OpenWait(i)
    \/ \E i \in Opens : OpenFinish(i)
    \/ TickEnv(ReopenTickArgs, MaxTicks)
    \/ TickInitial
    \/ TickInfo({FALSE}, PlainErrors)
    \/ TickPollClass(ReopenHost, {TRUE}, {FALSE}, PlainErrors)
    \/ TickSpawn
    \/ TickRefresh({"ok"}, PlainErrors)
    \/ TickStats(NominalInputs)
    \/ TickReturn

SpecReopen == Init /\ [][ReopenNext]_vars

(***************************************************************************)
(* SpecEvents: one open() against a host without objects on which every    *)
(* registration call of _add_conn_events may succeed or raise, followed by *)
(* unforced passes and by close(), whose deregistration calls may raise.   *)
(***************************************************************************)
\* an unforced pass over all the classes
EventsTickArgs == {[stats |-> FALSE, polls |-> Classes, force |-> FALSE]}

EventsNext ==
    \/ Open(MaxOpens)
    \/ Close(BOOLEAN)
    \/ DeliverClose(BOOLEAN)
    \/ DeliverChangeState
    \/ DeliverOpenCompleted
    \/ \E i \in Opens : OpenDoOpen(i)
    \/ \E i \in Opens : OpenPopulate(i, RegOutcomes, FALSE)
    \/ \E i \in Opens : OpenWait(i)
    \/ \E i \in Opens : OpenFinish(i)
    \/ TickEnv(EventsTickArgs, MaxTicks)
    \/ TickInitial
    \/ TickInfo({FALSE}, PlainErrors)
    \/ TickPollClass(ReopenHost, {TRUE}, {FALSE}, PlainErrors)
    \/ TickSpawn
    \/ TickRefresh({"ok"}, PlainErrors)
    \/ TickStats(NominalInputs)
    \/ TickReturn

SpecEvents == Init /\ [][EventsNext]_vars

(***************************************************************************)
(* SpecNoEvents: the same connection in a process started with             *)
(* FORCE_DISABLE_EVENTS on.                                                *)
(***************************************************************************)
\* unforced passes
NoEventsTickArgs ==
    {[stats |-> FALSE, polls |-> P, force |-> FALSE] :
        P \in {Classes, {"vm", "net"}, {"pool", "nodedev"}}}

NoEventsNext ==
    \/ Open(MaxOpens)
    \/ Close(BOOLEAN)
    \/ DeliverClose(BOOLEAN)
    \/ DeliverChangeState
    \/ DeliverOpenCompleted
    \/ \E i \in Opens : OpenDoOpen(i)
    \/ \E i \in Opens : OpenPopulate(i, RegOutcomes, TRUE)
    \/ \E i \in Opens : OpenWait(i)
    \/ \E i \in Opens : OpenFinish(i)
    \/ TickEnv(NoEventsTickArgs, MaxTicks)
    \/ TickInitial
    \/ TickInfo({FALSE}, PlainErrors)
    \/ TickPollClass(ReopenHost, {TRUE}, {FALSE}, PlainErrors)
    \/ TickSpawn
    \/ TickRefresh({"ok"}, PlainErrors)
    \/ TickStats(NominalInputs)
    \/ TickReturn

SpecNoEvents == Init /\ [][NoEventsNext]_vars

(***************************************************************************)
(* SpecTick: one pass of the tick thread, with any arguments, started in   *)
(* any of the situations an earlier open() and earlier passes leave behind.*)
(***************************************************************************)
\* a registry filled by earlier passes: one object of every class
TickRegistry ==
    <<Obj("vm", 1, 0), Obj("net", 1, 0), Obj("pool", 1, 0),
      Obj("iface", 1, 0), Obj("nodedev", 1, 0)>>

\* the host reports the one object of every class it enumerates
TickHost == [c \in Classes |-> {Keys}]

\* event registration at the open() before the pass: the auxiliary
\* callbacks of a class register when its lifecycle callback does, and the
\* host that refuses node device events refuses network events too
TickRegs == {r \in RegOutcomes :
               /\ r.vmAux = r.vm /\ r.poolAux = r.pool
               /\ r.nodedevAux = r.nodedev
               /\ r.net => r.nodedev}

TickSpecInit ==
    /\ blacklist = NoBlacklist
    /\ ListIdle
    /\ state \in {"disconnected", "connecting", "active"}
    /\ closing \in BOOLEAN
    /\ backendOpen = (state # "disconnected")
    /\ \E reg \in TickRegs :
          /\ usingEvents = AddConnEvents(FALSE, [c \in EvClasses |-> FALSE], reg)
          /\ cbIds = IF state = "disconnected" THEN NoHandles
                     ELSE AddConnHandles(FALSE, NoHandles, reg)
    /\ deregFailed = FALSE
    /\ \E filled \in IF state = "disconnected" THEN {FALSE} ELSE BOOLEAN :
          /\ objects = IF filled THEN TickRegistry ELSE <<>>
          /\ capable = [c \in CapClasses |-> IF filled THEN "yes" ELSE "none"]
    /\ initEvent = 0
    /\ initCount = <<>>
    /\ evFlag = [i \in Opens |-> FALSE]
    /\ othr = [i \in Opens |-> NoThread]
    /\ mainQ = <<>>
    /\ tickReq = <<>>
    /\ tick = NoTick
    /\ nticks = 0
    /\ initThreads = {}
    /\ stats = <<>>
    /\ emitted = <<>>
    /\ unreported = [i \in Opens |-> {}]
    /\ failStreak = [k \in AllKeys |-> 0]
    /\ closeReq = FALSE
    /\ call = <<>>

TickSpecNext ==
    \/ TickEnv(TickArgs(SUBSET Classes), MaxTicks)
    \/ TickInfo(BOOLEAN, PlainErrors)
    \/ TickPollClass(TickHost, BOOLEAN, {FALSE}, PlainErrors)
    \/ TickSpawn
    \/ TickRefresh({"ok", "dropped"}, PlainErrors)
    \/ TickStats(NominalInputs)
    \/ TickReturn

SpecTick == TickSpecInit /\ [][TickSpecNext]_vars

(***************************************************************************)
(* SpecPoll: an active connection whose host has one VM; every domain      *)
(* lifecycle event requests a forced pass, and the initialization of the   *)
(* VM may fail every time.                                                 *)
(***************************************************************************)
\* the state in which an open() that found nothing leaves the connection
PollStart ==
    /\ ListInit
    /\ state = "active"
    /\ closing = FALSE
    /\ backendOpen = TRUE
    /\ usingEvents = [c \in EvClasses |-> FALSE]
    /\ cbIds = NoHandles
    /\ deregFailed = FALSE
    /\ capable = [c \in CapClasses |-> "yes"]
    /\ initEvent = 0
    /\ initCount = <<>>
    /\ evFlag = [i \in Opens |-> i = 1]
    /\ othr = [i \in Opens |-> IF i = 1 THEN [pc |-> "done", waitOn |-> 1, code |-> "none"]
                               ELSE NoThread]
    /\ mainQ = <<>>
    /\ tickReq = <<>>
    /\ tick = NoTick
    /\ nticks = 0
    /\ initThreads = {}
    /\ stats = <<Sample(<<>>, <<>>, CHOOSE in \in NominalInputs : TRUE)>>
    /\ emitted = <<OpenCompleted(1, "none")>>
    /\ unreported = [i \in Opens |-> {}]
    /\ failStreak = [k \in AllKeys |-> 0]
    /\ closeReq = FALSE
    /\ call = <<>>

PollHost == [c \in Classes |-> IF c = "vm" THEN {Keys} ELSE {{}}]
\* the pass a domain lifecycle event requests: line 752
PollTickArgs == {[stats |-> FALSE, polls |-> {"vm"}, force |-> TRUE]}

PollNext ==
    \/ TickEnv(PollTickArgs, MaxPolls)
    \/ TickInfo({FALSE}, PlainErrors)
    \/ TickPollClass(PollHost, {TRUE}, {FALSE}, PlainErrors)
    \/ TickSpawn
    \/ TickRefresh({"ok"}, PlainErrors)
    \/ TickStats(NominalInputs)
    \/ TickReturn
    \/ InitStep
    \/ DeliverNewObject

SpecPoll == PollStart /\ [][PollNext]_vars

(***************************************************************************)
(* SpecSpawn: one open() of a host that has several domains and a network, *)
(* and one pass that a network lifecycle event requests.                   *)
(***************************************************************************)
SpawnHost ==
    [c \in Classes |-> IF c = "vm" THEN {HostKeys}
                       ELSE IF c = "net" THEN {{1}}
                       ELSE {{}}]

\* the pass a network lifecycle event requests: line 781
SpawnTickArgs == {[stats |-> FALSE, polls |-> {"net"}, force |-> TRUE]}

SpawnNext ==
    \/ Open(MaxOpens)
    \/ DeliverChangeState
    \/ DeliverOpenCompleted
    \/ DeliverNewObject
    \/ \E i \in Opens : OpenDoOpen(i)
    \/ \E i \in Opens : OpenPopulate(i, MainRegs, FALSE)
    \/ \E i \in Opens : OpenWait(i)
    \/ \E i \in Opens : OpenFinish(i)
    \/ TickEnv(SpawnTickArgs, MaxTicks)
    \/ TickInitial
    \/ TickInfo({FALSE}, PlainErrors)
    \/ TickPollClass(SpawnHost, {TRUE}, {FALSE}, PlainErrors)
    \/ TickSpawn
    \/ TickRefresh({"ok"}, PlainErrors)
    \/ TickStats(NominalInputs)
    \/ TickReturn
    \/ InitStep

SpecSpawn == Init /\ [][SpawnNext]_vars

(***************************************************************************)
(* SpecGone: an active connection whose host has a VM that comes and goes; *)
(* every domain lifecycle event requests a forced pass, and the            *)
(* initialization of the VM may fail.                                      *)
(***************************************************************************)
GoneHost == [c \in Classes |-> IF c = "vm" THEN SUBSET Keys ELSE {{}}]

GoneNext ==
    \/ TickEnv(PollTickArgs, MaxPolls)
    \/ TickInfo({FALSE}, PlainErrors)
    \/ TickPollClass(GoneHost, {TRUE}, {FALSE}, PlainErrors)
    \/ TickSpawn
    \/ TickRefresh({"ok"}, PlainErrors)
    \/ TickStats(NominalInputs)
    \/ TickReturn
    \/ InitStep
    \/ DeliverNewObject
    \/ DeliverGone

SpecGone == PollStart /\ [][GoneNext]_vars

(***************************************************************************)
(* SpecSync: one forced pass over an active connection whose registry and  *)
(* cached capabilities are whatever earlier passes left, against a host    *)
(* that has domains, networks and storage pools and may report any set of  *)
(* keys for each of them.                                                  *)
(***************************************************************************)
\* every entity, in the order of the classes
EntitySeq ==
    [n \in 1..(Len(ClassOrder) * NumKeys) |->
        Obj(ClassOrder[((n - 1) \div NumKeys) + 1], ((n - 1) % NumKeys) + 1, 0)]

\* the registry that tracks the entities of S
SyncRegistry(S) == SelectSeq(EntitySeq, LAMBDA o : BlacklistKey(o) \in S)

\* the classes the host has objects of
SyncClasses == {"vm", "net", "pool"}

SyncHost == [c \in Classes |-> IF c \in SyncClasses THEN SUBSET Keys ELSE {{}}]
\* forced passes that poll all the classes, some of them, or none
SyncTickArgs ==
    {[stats |-> FALSE, polls |-> P, force |-> TRUE] :
        P \in {Classes, {"vm", "pool"}, {"net", "iface", "nodedev"}, {}}}

SyncInit ==
    /\ blacklist = NoBlacklist
    /\ ListIdle
    /\ state = "active"
    /\ closing = FALSE
    /\ backendOpen = TRUE
    /\ usingEvents = [c \in EvClasses |-> FALSE]
    /\ cbIds = NoHandles
    /\ deregFailed = FALSE
    /\ \E S \in SUBSET (SyncClasses \X Keys) : objects = SyncRegistry(S)
    \* a class with tracked objects was found supported when they were
    \* enumerated; another one was found supported or not, or never probed
    /\ capable \in [CapClasses -> {"none", "yes", "no"}]
    /\ \A c \in CapClasses : ObjectsForClass(objects, c) # <<>> => capable[c] = "yes"
    /\ initEvent = 0
    /\ initCount = <<>>
    /\ evFlag = [i \in Opens |-> i = 1]
    /\ othr = [i \in Opens |-> IF i = 1 THEN [pc |-> "done", waitOn |-> 1, code |-> "none"]
                               ELSE NoThread]
    /\ mainQ = <<>>
    /\ tickReq = <<>>
    /\ tick = NoTick
    /\ nticks = 0
    /\ initThreads = {}
    /\ stats = <<Sample(<<>>, <<>>, CHOOSE in \in NominalInputs : TRUE)>>
    /\ emitted = <<>>
    /\ unreported = [i \in Opens |-> {}]
    /\ failStreak = [k \in AllKeys |-> 0]
    /\ closeReq = FALSE
    /\ call = <<>>

SyncNext ==
    \/ TickEnv(SyncTickArgs, 1)
    \/ TickInfo({FALSE}, PlainErrors)
    \/ TickPollClass(SyncHost, BOOLEAN, {FALSE}, PlainErrors)
    \/ TickSpawn
    \/ TickRefresh({"ok"}, PlainErrors)
    \/ TickStats(NominalInputs)
    \/ TickReturn

SpecSync == SyncInit /\ [][SyncNext]_vars

(***************************************************************************)
(* SpecRefresh: one forced pass over an active connection that tracks      *)
(* domains and networks, in which any call on the host may raise any       *)
(* error, and obj.tick() may raise for any of the objects it is called on. *)
(***************************************************************************)
RefreshClasses == {"vm", "net"}

RefreshHost == [c \in Classes |-> IF c \in RefreshClasses THEN SUBSET Keys ELSE {{}}]

RefreshTickArgs ==
    {[stats |-> st, polls |-> P, force |-> TRUE] :
        st \in BOOLEAN, P \in {Classes, {"vm"}, {"net"}}}

RefreshInit ==
    /\ SyncInit
    /\ capable = [c \in CapClasses |-> "yes"]
    /\ \A o \in Range(objects) : o.cls \in RefreshClasses

RefreshNext ==
    \/ TickEnv(RefreshTickArgs, 1)
    \/ TickInfo(BOOLEAN, LibvirtErrors)
    \/ TickPollClass(RefreshHost, {TRUE}, BOOLEAN, LibvirtErrors)
    \/ TickSpawn
    \/ TickRefresh(RefreshOutcomes, LibvirtErrors)
    \/ TickStats(NominalInputs)
    \/ TickReturn

SpecRefresh == RefreshInit /\ [][RefreshNext]_vars

(***************************************************************************)
(* SpecStats: an active connection that tracks domains, sampled by passes  *)
(* that request statistics with any inputs, and read through the vector    *)
(* accessors.                                                              *)
(***************************************************************************)
StatsHost == [c \in Classes |-> IF c = "vm" THEN {Keys} ELSE {{}}]

StatsTickArgs == {[stats |-> TRUE, polls |-> {"vm"}, force |-> TRUE]}

StatsInit ==
    /\ blacklist = NoBlacklist
    /\ ListIdle
    /\ state = "active"
    /\ closing = FALSE
    /\ backendOpen = TRUE
    /\ usingEvents = [c \in EvClasses |-> FALSE]
    /\ cbIds = NoHandles
    /\ deregFailed = FALSE
    /\ objects \in {<<>>, SyncRegistry({"vm"} \X Keys)}
    /\ capable = [c \in CapClasses |-> "yes"]
    /\ initEvent = 0
    /\ initCount = <<>>
    /\ evFlag = [i \in Opens |-> i = 1]
    /\ othr = [i \in Opens |-> IF i = 1 THEN [pc |-> "done", waitOn |-> 1, code |-> "none"]
                               ELSE NoThread]
    /\ mainQ = <<>>
    /\ tickReq = <<>>
    /\ tick = NoTick
    /\ nticks = 0
    /\ initThreads = {}
    /\ stats = <<>>
    /\ emitted = <<>>
    /\ unreported = [i \in Opens |-> {}]
    /\ failStreak = [k \in AllKeys |-> 0]
    /\ closeReq = FALSE
    /\ call = <<>>

StatsNext ==
    \/ TickEnv(StatsTickArgs, HistoryLength + 2)
    \/ TickInfo({FALSE}, PlainErrors)
    \/ TickPollClass(StatsHost, {TRUE}, {FALSE}, PlainErrors)
    \/ TickSpawn
    \/ TickRefresh({"ok"}, PlainErrors)
    \/ TickStats(StatInputs)
    \/ TickReturn
    \/ VectorCall

SpecStats == StatsInit /\ [][StatsNext]_vars

(***************************************************************************)
(* SpecRename: rename_object called on an active connection, for objects   *)
(* of any class, with any outcome of its calls on the host.                *)
(***************************************************************************)
RenameNext == RenameObject

SpecRename == RefreshInit /\ [][RenameNext]_vars

(***************************************************************************)
(* SpecRegistry: threads calling _ObjectList.add and _ObjectList.remove    *)
(* concurrently.  A call takes the lock, tests the list, acts on the test  *)
(* and releases the lock on return.                                        *)
(***************************************************************************)
RegThreads == 1..NumThreads
RegClasses == {"vm", "net"}
RegObjs == {Obj(c, 1, i) : c \in RegClasses, i \in 1..NumIds}
RegKeys == {BlacklistKey(o) : o \in RegObjs}

NoCall == [pc |-> "idle", op |-> "none", obj |-> Obj("vm", 1, 1),
           found |-> FALSE, ret |-> FALSE]

\* a lock that never excludes
LockIgnored == TRUE

\* `with self._lock`: the lock can be taken only while no thread holds it
LockIsFree == lock = 0

\* a thread enters add(obj) or remove(obj)
RegCall(t) ==
    /\ rthr[t].pc = "idle"
    /\ \E op \in {"add", "remove"}, o \in RegObjs :
          rthr' = [rthr EXCEPT ![t] = [NoCall EXCEPT !.pc = "acquire",
                                                    !.op = op, !.obj = o]]
    /\ UNCHANGED <<objects, blacklist, lock>>
    /\ UNCHANGED connvars

RegAcquire(t) ==
    /\ rthr[t].pc = "acquire"
    /\ LockIsFree
    /\ lock' = t
    /\ rthr' = [rthr EXCEPT ![t].pc = "scan"]
    /\ UNCHANGED <<objects, blacklist>>
    /\ UNCHANGED connvars

\* add: the loop over self._objects and `obj in self._objects`;
\* remove: `obj not in self._objects`
RegScan(t) ==
    /\ rthr[t].pc = "scan"
    /\ rthr' = [rthr EXCEPT
          ![t].pc = "act",
          ![t].found = IF rthr[t].op = "add"
                       THEN HasEntity(objects, rthr[t].obj)
                            \/ InList(objects, rthr[t].obj)
                       ELSE InList(objects, rthr[t].obj)]
    /\ UNCHANGED <<objects, blacklist, lock>>
    /\ UNCHANGED connvars

\* the rest of the body, and the release of the lock on return
RegAct(t) ==
    /\ rthr[t].pc = "act"
    /\ LET o == rthr[t].obj IN
       IF rthr[t].op = "add"
       THEN /\ objects' = IF rthr[t].found THEN objects ELSE Append(objects, o)
            /\ blacklist' = blacklist
            /\ rthr' = [rthr EXCEPT ![t].pc = "done", ![t].ret = ~rthr[t].found]
       ELSE /\ objects' = IF rthr[t].found THEN RemoveFirst(objects, o) ELSE objects
            /\ blacklist' = IF rthr[t].found THEN blacklist
                            ELSE remove_blacklist(blacklist, o)
            /\ rthr' = [rthr EXCEPT
                  ![t].pc = "done",
                  ![t].ret = IF rthr[t].found THEN TRUE
                             ELSE remove_blacklist_ret(blacklist, o)]
    /\ lock' = 0
    /\ UNCHANGED connvars

\* add_blacklist(obj), called without the lock
RegAddBlacklist ==
    /\ \E o \in RegObjs :
          /\ blacklist[BlacklistKey(o)] = 0
          /\ blacklist' = add_blacklist(blacklist, o)
    /\ UNCHANGED <<objects, lock, rthr>>
    /\ UNCHANGED connvars

RegInit == Init

RegNext ==
    \/ \E t \in RegThreads : RegCall(t)
    \/ \E t \in RegThreads : RegAcquire(t)
    \/ \E t \in RegThreads : RegScan(t)
    \/ \E t \in RegThreads : RegAct(t)
    \/ RegAddBlacklist

SpecRegistry == RegInit /\ [][RegNext]_vars

(***************************************************************************)
(* Claims checked under SpecRegistry.                                      *)
(***************************************************************************)
Adders(k) == {t \in RegThreads : rthr[t].op = "add" /\ BlacklistKey(rthr[t].obj) = k}
Removers(k) == {t \in RegThreads : rthr[t].op = "remove" /\ BlacklistKey(rthr[t].obj) = k}
Tracked(k) == {i \in 1..Len(objects) : BlacklistKey(objects[i]) = k}

\* C1: under any interleaving of add and remove calls from concurrent
\* threads the list never holds two objects with the same (class, connkey),
\* and when only add calls were made for a (class, connkey) that was not
\* present and all of them have returned, exactly one returned True and
\* that one object is in the list.
C1_UniqueAdd ==
    /\ \A k \in RegKeys : Cardinality(Tracked(k)) <= 1
    /\ \A k \in RegKeys :
          (/\ Adders(k) # {}
           /\ Removers(k) = {}
           /\ \A t \in Adders(k) : rthr[t].pc = "done")
          => /\ Cardinality({t \in Adders(k) : rthr[t].ret}) = 1
             /\ Cardinality(Tracked(k)) = 1

\* every thread has called add for one (class, connkey), with different
\* instances, and all the calls have returned: one with True, another
\* with False
C1_Witness ==
    \E k \in RegKeys :
       /\ Adders(k) = RegThreads
       /\ \A t \in RegThreads : rthr[t].pc = "done"
       /\ \E a, b \in RegThreads :
             /\ rthr[a].obj # rthr[b].obj
             /\ rthr[a].ret /\ ~rthr[b].ret

\* the threads whose remove() call returns in this step
Returning(op) ==
    {t \in RegThreads : rthr[t].op = op /\ rthr[t].pc = "act" /\ rthr'[t].pc = "done"}

NewlyHanded == UNION {Range(tick'.new[c]) \ Range(tick.new[c]) : c \in Classes}

\* C2: an entity whose initialization has failed more than BLACKLIST_COUNT
\* times in a row, with no successful initialization in between, is not in
\* the new set that a later pass hands to the initializer threads.
C2_BlacklistedExcluded ==
    [][\A o \in NewlyHanded : failStreak[BlacklistKey(o)] <= BLACKLIST_COUNT]_vars

(***************************************************************************)
(* Claims checked under Spec.                                              *)
(***************************************************************************)
AllowedTransitions ==
    {<<"disconnected", "connecting">>, <<"connecting", "active">>,
     <<"connecting", "disconnected">>, <<"active", "disconnected">>}

\* C3: the state changes only along Disconnected -> Connecting,
\* Connecting -> Active, Connecting -> Disconnected and
\* Active -> Disconnected; in particular it never goes from Disconnected
\* to Active, whatever the interleaving of open(), close(), the connect
\* thread and the queued callbacks.
C3_Transitions ==
    [][state' # state => <<state, state'>> \in AllowedTransitions]_vars

\* C4: when open-completed is emitted for an open, every new object that
\* the initial poll of that open counted has reported the success or the
\* failure of its initialization.
C4_CompletedAfterReports ==
    \A i \in Opens :
       (\E e \in OpenErrors : InList(emitted, OpenCompleted(i, e)))
       => unreported[i] = {}

\* nothing is running or queued: every requested pass has returned, every
\* initializer has reported and every queued callback has run
Quiescent ==
    /\ mainQ = <<>>
    /\ initThreads = {}
    /\ tick.pc = "idle"
    /\ tickReq = <<>>

\* C5: the wait of the connect thread on the initial population ends: once
\* the initial poll has run, every initializer has reported and every
\* callback has been delivered, no connect thread is still blocked in
\* _init_object_event.wait().
C5_WaitEnds == Quiescent => \A i \in Opens : othr[i].pc # "blocked"

TickInFlight == tick.pc \in {"info", "poll", "spawn", "refresh", "stats"}

Positions(sigs, s) == {i \in 1..Len(sigs) : sigs[i] = s}

\* the removed signal of o is emitted once, its cleanup once and after it
RemovedOnceBeforeCleanup(sigs, o) ==
    /\ Cardinality(Positions(sigs, Removed(o))) = 1
    /\ Cardinality(Positions(sigs, Cleanup(o))) = 1
    /\ \A i \in Positions(sigs, Removed(o)) :
          \A j \in Positions(sigs, Cleanup(o)) : i < j

\* C6: close() run while a pass of the tick thread is in flight leaves the
\* state Disconnected and the registry empty, and emits the removed signal
\* exactly once for every object tracked when it ran, before the cleanup of
\* that object, and for no other object; the gone batch that the pass in
\* flight delivers after the close emits nothing.
C6_CloseMidTick ==
    [][/\ (TickInFlight /\ (Close(BOOLEAN) \/ DeliverClose(BOOLEAN)))
          => /\ state' = "disconnected"
             /\ objects' = <<>>
             /\ \A o \in Range(objects) : RemovedOnceBeforeCleanup(emitted', o)
             /\ \A k \in 1..Len(emitted') :
                   emitted'[k] # StateChanged => emitted'[k].obj \in Range(objects)
       /\ (DeliverGone /\ ~backendOpen) => (emitted' = <<>> /\ objects' = objects)
      ]_vars

\* close() has just run with a pass in flight and a tracked object
C6_Witness ==
    /\ TickInFlight
    /\ state = "disconnected"
    /\ objects = <<>>
    /\ InList(emitted, StateChanged)
    /\ \E o \in {Obj(c, k, i) : c \in Classes, k \in Keys, i \in -MaxReopens..MaxTicks} :
          InList(emitted, Removed(o))

\* what a pass does: host query, enumeration, refresh, sample, notification
TickDidNothing(t) ==
    /\ ~t.queried
    /\ ~t.cached
    /\ t.enumerated = {}
    /\ t.refreshed = {}
    /\ ~t.sampled
    /\ ~t.notified
    /\ ~t.raised
    /\ t.gone = <<>>
    /\ \A c \in Classes : t.new[c] = <<>>

\* C7: a pass that finds the closing flag set or the state Disconnected, or
\* the state Connecting without force, performs no host query, enumeration,
\* per-object refresh, statistics sample or notification.
C7_SkippedTick ==
    (/\ tick.pc # "idle"
     /\ \/ tick.entryClosing
        \/ tick.entryState = "disconnected"
        \/ (tick.entryState = "connecting" /\ ~tick.force))
    => (tick.pc = "done" /\ TickDidNothing(tick))

\* an unforced pass that was asked to poll has found the state Connecting
\* and has returned
C7_Witness ==
    /\ tick.pc = "done"
    /\ ~tick.entryClosing
    /\ tick.entryState = "connecting"
    /\ ~tick.force
    /\ tick.reqPolls # {}

\* C8: a pass started after a close was requested (close() or
\* _schedule_close()) and before the next open() enumerates nothing,
\* refreshes nothing, samples no statistics and hands no object to the
\* registry.
C8_NoOpAfterClose ==
    (tick.pc # "idle" /\ tick.afterClose /\ closeReq)
    => /\ tick.enumerated = {}
       /\ tick.refreshed = {}
       /\ ~tick.sampled
       /\ tick.gone = <<>>
       /\ \A c \in Classes : tick.new[c] = <<>>

\* a close() runs in this step
Closes == Close(BOOLEAN) \/ DeliverClose(BOOLEAN)

\* C17: close() resets the event flags: when it has run, the flags of all
\* four classes are false.
C17_FlagsReset ==
    [][Closes => \A c \in EvClasses : ~usingEvents'[c]]_vars

\* C18: after close() the four handle lists are empty, whether or not a
\* deregistration call raised, the registry is empty and the state is
\* Disconnected.
C18_HandlesCleared ==
    [][Closes
       => /\ cbIds' = NoHandles
          /\ objects' = <<>>
          /\ state' = "disconnected"
          /\ \A o \in Range(objects) : InList(emitted', Removed(o))]_vars

\* a close() in which a deregistration call raised has just run on a
\* connection that tracked an object
C18_Witness ==
    /\ deregFailed
    /\ cbIds = NoHandles
    /\ objects = <<>>
    /\ state = "disconnected"
    /\ \E k \in 1..Len(emitted) : emitted[k].sig = "removed"

\* the connect threads that run _add_conn_events and setKeepAlive in
\* this step: the session is established and the version queries succeed
Registering ==
    {i \in Opens : othr[i].pc = "populate" /\ othr'[i].pc # "populate"
                    /\ backendOpen}

\* C20: once the session is established, _populate_initial_state goes on
\* to request the initial tick whatever event registration, default-pool
\* creation and setKeepAlive raise: the connect thread does not take its
\* except branch, schedules no close and queues no open-completed error.
C20_SetupNonFatal ==
    [][\A i \in Registering :
          /\ othr'[i].pc = "prewait"
          /\ closing' = closing
          /\ mainQ' = mainQ]_vars

(***************************************************************************)
(* Claims checked under SpecTick.                                          *)
(***************************************************************************)
PassedEntry(t) ==
    /\ ~t.entryClosing
    /\ t.entryState # "disconnected"
    /\ (t.entryState = "connecting" => t.force)

\* the pass has polled all the classes without an exception
PollComplete(t) ==
    \/ t.pc \in {"spawn", "refresh", "stats"}
    \/ (t.pc = "done" /\ t.queried /\ ~t.raised)

Supported(c) == c \in CapClasses => capable[c] = "yes"
EventCovered(c) == c \in EvClasses /\ usingEvents[c]

\* the classes a pass has to enumerate
ToEnumerate(t) ==
    {c \in t.reqPolls : Supported(c) /\ (t.force \/ ~EventCovered(c))}

\* C9: a pass that passes the entry checks enumerates a class on the host
\* exactly when polling of the class was requested, the class is supported
\* and force is set or the class's event flag is false: never another
\* class, and every such class once it has polled them all.
C9_EnumeratedClasses ==
    (tick.pc # "idle" /\ PassedEntry(tick))
    => /\ tick.enumerated \subseteq ToEnumerate(tick)
       /\ PollComplete(tick) => tick.enumerated = ToEnumerate(tick)

\* a forced pass has enumerated an event-covered class, and has skipped a
\* requested class that is not supported
C9_Witness ==
    /\ PollComplete(tick)
    /\ tick.force
    /\ \E c \in tick.enumerated : EventCovered(c)
    /\ \E c \in tick.reqPolls : ~Supported(c) /\ c \notin tick.enumerated

\* the pass ran to its end without an exception
Completed(t) == t.pc = "done" /\ t.queried /\ ~t.raised

\* the classes left out of the polling only because events cover them
ExcludedByEvents(t) == {c \in t.reqPolls : EventCovered(c) /\ ~t.force}

PreExisting(t, c) == {o \in Range(t.pre) : o.cls = c}

\* C10 as stated: in an unforced pass, the existing objects of every class
\* left out of the polling only because events cover it are still
\* refreshed, and statistics are sampled when they were requested.
C10_EventCoveredRefreshed ==
    (Completed(tick) /\ PassedEntry(tick) /\ ~tick.force
       /\ ExcludedByEvents(tick) # {})
    => /\ \A c \in ExcludedByEvents(tick) :
             PreExisting(tick, c) \subseteq tick.refreshed
       /\ tick.reqStats => tick.sampled

\* C10 amended: in an unforced pass, of the classes left out of the polling
\* only because events cover them, the existing VMs are refreshed exactly
\* when statistics were requested, and then the statistics are sampled; the
\* existing networks, storage pools and node devices are not refreshed.
C10_OnlyVmsRefreshed ==
    (Completed(tick) /\ PassedEntry(tick) /\ ~tick.force)
    => \A c \in ExcludedByEvents(tick) :
          IF c = "vm" /\ tick.reqStats
          THEN PreExisting(tick, c) \subseteq tick.refreshed /\ tick.sampled
          ELSE PreExisting(tick, c) \cap tick.refreshed = {}

\* an unforced pass with statistics has refreshed the event-covered VM and
\* sampled, and has left the event-covered network alone
C10_Witness ==
    /\ Completed(tick) /\ PassedEntry(tick) /\ ~tick.force
    /\ tick.reqStats
    /\ {"vm", "net"} \subseteq ExcludedByEvents(tick)
    /\ PreExisting(tick, "vm") # {}
    /\ PreExisting(tick, "vm") \subseteq tick.refreshed
    /\ tick.sampled
    /\ PreExisting(tick, "net") # {}
    /\ PreExisting(tick, "net") \cap tick.refreshed = {}

(***************************************************************************)
(* Claims checked under SpecReopen.                                        *)
(***************************************************************************)
\* C14: open() called while the state is Connecting or Active changes
\* nothing: the state stays, no state-changed signal is emitted, no connect
\* thread is started and nothing is queued on the main context.
C14_OpenRejected ==
    [][(state \in {"connecting", "active"} /\ Open(MaxReopens))
       => /\ state' = state
          /\ emitted' = <<>>
          /\ othr' = othr
          /\ mainQ' = mainQ
          /\ UNCHANGED <<objects, blacklist, closing, backendOpen,
                         usingEvents, cbIds, deregFailed, initEvent, initCount, evFlag, tickReq,
                         tick, initThreads, stats>>]_vars

\* open() has been called a second time while the first connect thread had
\* not run yet: the state-changed signal of the first call is no longer
\* the latest emission, and no second thread exists
C14_Witness ==
    /\ state = "connecting"
    /\ othr[1].pc = "do_open"
    /\ \A i \in Opens : i > 1 => othr[i].pc = "unborn"
    /\ nticks = 0
    /\ tick = NoTick
    /\ mainQ = <<>>
    /\ emitted = <<>>

\* the connect threads whose _backend.open() raised
EstablishmentFailed == {i \in Opens : othr[i].code # "none"}

\* C21: when open-completed is emitted for an open() whose session
\* establishment failed, its payload is null if the failure was the user
\* cancelling authentication and a connect error otherwise, and the state
\* has returned to Disconnected: it is Disconnected unless open() was called
\* again since.
C21_EstablishmentFailure ==
    \A i \in EstablishmentFailed, e \in OpenErrors :
       InList(emitted, OpenCompleted(i, e))
       => /\ e = (IF othr[i].code = "auth_cancelled" THEN "none" ELSE "error")
          /\ \/ state = "disconnected"
             \/ \E j \in Opens : j > i /\ othr[j].pc # "unborn"

\* open-completed has just been emitted with a connect error for a first
\* open() that failed, and with a null payload for a second one that the
\* user cancelled; the state is Disconnected
C21_Witness ==
    /\ othr[1].code = "other"
    /\ othr[2].code = "auth_cancelled"
    /\ emitted = <<OpenCompleted(2, "none")>>
    /\ state = "disconnected"
    /\ mainQ = <<>>

\* the connect threads that have been started and have not returned
RunningThreads == {i \in Opens : othr[i].pc \notin {"unborn", "done"}}

\* C38: at most one connect thread of the connection is running at any
\* time, also when open(), close() and open() are called while the first
\* connect thread has not finished.
C38_OneConnectThread == Cardinality(RunningThreads) <= 1

(***************************************************************************)
(* Claims checked under SpecEvents.                                        *)
(***************************************************************************)
\* the lifecycle callback of the class is registered
LifecycleRegistered(ids, c) == InList(ids[c], "lifecycle")

\* the auxiliary callbacks of a class
AuxEvents(c) ==
    CASE c = "vm" -> Range(DomainXmlEvents)
      [] c = "net" -> {}
      [] c = "pool" -> {"refresh"}
      [] c = "nodedev" -> {"update"}

\* the lifecycle callback of the class is registered and an auxiliary one
\* is not
AuxFailed(ids, c) ==
    /\ LifecycleRegistered(ids, c)
    /\ \E e \in AuxEvents(c) : ~InList(ids[c], e)

\* C15: when _add_conn_events has run at an open, the event flag of every
\* class is true exactly when the lifecycle callback of that class was
\* registered at this open, whatever happened to the other classes.
C15_FlagIffLifecycle ==
    [][Registering # {}
       => \A c \in EvClasses :
             usingEvents'[c] = LifecycleRegistered(cbIds', c)]_vars

\* C16: when _add_conn_events has run at an open and an auxiliary callback
\* of a class failed to register after its lifecycle callback was
\* registered, the event flag of the class is as the lifecycle registration
\* set it, true, and the flags of the other classes follow their own
\* lifecycle registrations.
C16_AuxiliaryBestEffort ==
    [][Registering # {}
       => \A c \in EvClasses :
             AuxFailed(cbIds', c)
             => /\ usingEvents'[c]
                /\ \A d \in EvClasses \ {c} :
                      (LifecycleRegistered(cbIds', d) /\ ~AuxFailed(cbIds', d))
                      => usingEvents'[d]]_vars

(***************************************************************************)
(* Claims checked under SpecNoEvents.                                      *)
(***************************************************************************)
\* C19: with FORCE_DISABLE_EVENTS on, no callback handle is ever registered
\* for any class and every event flag stays false, so that every pass that
\* passes its entry checks polls each class it was asked to poll.
C19_EventsDisabled ==
    /\ cbIds = NoHandles
    /\ \A c \in EvClasses : ~usingEvents[c]
    /\ (tick.pc # "idle" /\ PassedEntry(tick)) => tick.polls = tick.reqPolls

\* the connection is active after an open() whose registration calls would
\* all have succeeded, and an unforced pass over all the classes polls
\* them all
C19_Witness ==
    /\ state = "active"
    /\ \E i \in Opens : othr[i].pc = "done" /\ evFlag[i]
    /\ tick.pc = "poll"
    /\ ~tick.force
    /\ tick.reqPolls = Classes
    /\ tick.polls = Classes

(***************************************************************************)
(* Claims checked under SpecSync.                                          *)
(***************************************************************************)
\* the classes the pass in flight has gone through
Polled(t) ==
    {ClassOrder[n] : n \in {m \in 1..Len(ClassOrder) :
                               m < t.idx \/ t.pc \in {"spawn", "refresh", "stats"}
                               \/ (t.pc = "done" /\ t.queried /\ ~t.raised)}}

\* the registry snapshot L of a class, and what the pass made of it
LocalOf(c) == Range(ObjectsForClass(objects, c))
GoneOf(t, c) == {o \in Range(t.gone) : o.cls = c}
NewOf(t, c) == Range(t.new[c])
ExistingOf(t, c) == {o \in Range(t.pre) : o.cls = c}
KeySet(S) == {o.key : o \in S}

\* C11: for a class enumerated on the host, with R the keys the host
\* reported and L the objects the registry tracked, the pass classifies as
\* gone the objects of L whose key is not in R, as new one object for every
\* key of R that L lacks, and as existing the objects of L whose key is in
\* R; the three key sets are pairwise disjoint and cover the keys of L and R.
C11_Partition ==
    \A c \in tick.enumerated \cap Polled(tick) :
       LET L == LocalOf(c)
           R == tick.remote[c]
           gone == GoneOf(tick, c)
           new == NewOf(tick, c)
           existing == ExistingOf(tick, c)
       IN
       /\ gone = {o \in L : o.key \notin R}
       /\ existing = {o \in L : o.key \in R}
       /\ KeySet(new) = R \ KeySet(L)
       /\ Cardinality(new) = Cardinality(R \ KeySet(L))
       /\ KeySet(gone) \cap KeySet(new) = {}
       /\ KeySet(gone) \cap KeySet(existing) = {}
       /\ KeySet(new) \cap KeySet(existing) = {}
       /\ KeySet(gone) \cup KeySet(new) \cup KeySet(existing) = KeySet(L) \cup R

\* a pass has classified an object as gone, another as new and another as
\* existing
C11_Witness ==
    /\ tick.pc = "spawn"
    /\ \E c \in tick.enumerated : GoneOf(tick, c) # {}
    /\ \E c \in tick.enumerated : NewOf(tick, c) # {}
    /\ \E c \in tick.enumerated : ExistingOf(tick, c) # {}

\* the class the step of _poll has just gone through
JustPolled == Polled(tick') \ Polled(tick)

\* the probe of the class has reported it unsupported
Unsupported(cap, c) == c \in CapClasses /\ cap[c] = "no"

\* C12: when _poll goes through a class that is not polled in the pass, or
\* whose capability probe has reported it unsupported, it does not
\* enumerate the class on the host, reports no gone and no new object for
\* it, returns as existing exactly the objects the registry tracks for the
\* class, and leaves the registry unchanged.
C12_SkippedClass ==
    [][\A c \in JustPolled :
          (c \notin tick'.polls \/ Unsupported(capable', c))
          => /\ c \notin tick'.enumerated
             /\ GoneOf(tick', c) = {}
             /\ NewOf(tick', c) = {}
             /\ ExistingOf(tick', c) = LocalOf(c)
             /\ objects' = objects
             /\ blacklist' = blacklist]_vars

\* a pass has gone through a class it polls that the probe reported
\* unsupported, and through a class with tracked objects that it does not
\* poll
C12_Witness ==
    /\ tick.pc = "spawn"
    /\ \E c \in tick.polls : Unsupported(capable, c) /\ c \notin tick.enumerated
    /\ \E c \in Classes \ tick.polls :
          /\ LocalOf(c) # {}
          /\ ExistingOf(tick, c) = LocalOf(c)

(***************************************************************************)
(* Claims checked under SpecRefresh.                                       *)
(***************************************************************************)
\* the pass is past its refresh loop, or an exception escaped from the loop
RefreshOver(t) ==
    \/ t.pc = "stats"
    \/ (t.pc = "done" /\ t.queried /\ (~t.raised \/ t.errors # {}))

\* the objects whose obj.tick() raised, and those after which the probe
\* raised too
FailedRefresh(t) == {e[1] : e \in t.errors}
Dropped(t) == {e[1] : e \in {d \in t.errors : d[2] = "dropped"}}

\* C22: the failure of obj.tick() for one object does not abort the pass:
\* obj.tick() is still called on every object the loop has to refresh, and
\* the statistics requested together with VM polling are still sampled; the
\* pass aborts, with a close scheduled, exactly when a failure was a system
\* error and the getInfo probe that follows it raised too.
C22_RefreshFailureIsolated ==
    RefreshOver(tick)
    => /\ tick.raised = (Dropped(tick) # {})
       /\ ~tick.raised
          => /\ tick.refreshed = Range(ToRefresh(tick))
             /\ (tick.pc = "done" /\ tick.reqStats /\ "vm" \in tick.reqPolls)
                => tick.sampled
       /\ tick.raised => (closing /\ InList(mainQ, CbClose))

\* a pass has run to its end and sampled the statistics although obj.tick()
\* raised a plain error for one object and a system error for another
C22_Witness ==
    /\ tick.pc = "done"
    /\ ~tick.raised
    /\ \E e, f \in tick.errors : e[2] = "error" /\ f[2] = "system_error"
    /\ FailedRefresh(tick) = tick.refreshed
    /\ tick.sampled
    /\ ~closing

\* C23: whenever an exception escapes a pass, tick_from_engine sets the
\* closing flag and schedules a close; it raises the exception to its
\* caller unless the error domain is remote or RPC and the error code is
\* system-error or internal-error, and then it raises nothing.
C23_EscapedException ==
    /\ tick.raised
       => /\ closing
          /\ InList(mainQ, CbClose)
          /\ tick.propagated =
                ~(/\ tick.exc.dom \in {"remote", "rpc"}
                  /\ tick.exc.code \in {"system_error", "internal_error"})
    /\ (tick.pc # "idle" /\ ~tick.raised)
       => (~tick.propagated /\ ~closing /\ ~InList(mainQ, CbClose))

\* an internal error of the RPC layer has escaped a pass after the host
\* query: the close is scheduled and nothing is raised to the caller
C23_Witness ==
    /\ tick.raised
    /\ tick.enumerated # {}
    /\ tick.exc = [dom |-> "rpc", code |-> "internal_error"]
    /\ ~tick.propagated
    /\ closing
    /\ mainQ = <<CbClose>>

\* the objects the pass discovered as new
NewInPass(t) == UNION {Range(t.new[c]) : c \in Classes}

\* the VMs that were registered before the pass and that the pass has not
\* found gone
RegisteredVms(t) ==
    {o \in Range(objects) : ReportsStats(o) /\ ~InList(t.gone, o)}

\* C32: within a pass obj.tick() is called only on objects that were in
\* the registry before the pass; an object the pass discovered as new is
\* never refreshed in that pass and is never counted in the statistics
\* sample of that pass.
C32_NewNotRefreshed ==
    tick.pc # "idle"
    => /\ tick.refreshed \subseteq Range(objects)
       /\ tick.refreshed \cap NewInPass(tick) = {}
       /\ tick.sampled => stats[1].vms = Cardinality(RegisteredVms(tick))

\* a pass with statistics over all the classes has discovered a new VM and
\* has refreshed the network that was registered before: the VM has not
\* been refreshed and the sample counts no VM
C32_Witness ==
    /\ tick.pc = "done"
    /\ tick.sampled
    /\ tick.new["vm"] # <<>>
    /\ \E o \in tick.refreshed : o.cls = "net"
    /\ stats[1].vms = 0

(***************************************************************************)
(* Claims checked under SpecStats.                                         *)
(***************************************************************************)
\* C24 as stated: the statistics history never holds more samples than the
\* configured history length, after any number of insertions.
C24_HistoryBounded == Len(stats) <= HistoryLength

\* C24 amended: the statistics history never holds more than one sample
\* over the configured history length; every insertion puts the new sample
\* in front of the earlier history cut to the configured length.
C24_HistoryOneOver ==
    [][/\ Len(stats') <= HistoryLength + 1
       /\ Len(stats') > Len(stats)
          => /\ Len(stats) <= HistoryLength
             /\ Tail(stats') = stats
       /\ (stats' # stats /\ Len(stats') <= Len(stats) /\ ~tick'.raised)
          => /\ Len(stats') = HistoryLength + 1
             /\ Tail(stats') = SubSeq(stats, 1, HistoryLength)]_vars

\* more passes than the history is long have sampled, and the history
\* holds one sample more than the configured length
C24_Witness ==
    /\ nticks = HistoryLength + 2
    /\ tick.pc = "done"
    /\ tick.sampled
    /\ Len(stats) = HistoryLength + 1

\* the latest call of a vector accessor
Called == call[1]

\* the positions of the vector beyond the recorded samples hold 0
ZeroPadded(v) ==
    \A i \in 1..Len(v.vector) : i > v.samples => v.vector[i] = Zero

\* C25 as stated: a vector accessor returns a sequence whose length is the
\* limit when one is given and the configured history length otherwise,
\* however many samples exist, with 0 beyond the recorded samples.
C25_VectorLength ==
    call # <<>>
    => /\ Len(Called.vector) = (IF Called.limit # <<>> THEN Called.limit[1]
                                ELSE HistoryLength)
       /\ ZeroPadded(Called)

\* C25 amended: a vector accessor returns a sequence whose length is the
\* configured history length plus one, or the limit when one is given and
\* is smaller, however many samples exist; the positions within the recorded
\* samples hold the samples, newest first, and those beyond hold 0.
C25_VectorLengthCapped ==
    call # <<>>
    => /\ Len(Called.vector) =
             (IF Called.limit # <<>> /\ Called.limit[1] < HistoryLength + 1
              THEN Called.limit[1] ELSE HistoryLength + 1)
       /\ ZeroPadded(Called)
       /\ \A i \in 1..Len(Called.vector) :
             i <= Called.samples => Called.vector[i].den = 100

\* an accessor called with a limit above the history length plus one, on a
\* history of one sample, has returned history length plus one values, the
\* last of them 0
C25_Witness ==
    /\ call # <<>>
    /\ Called.limit = <<HistoryLength + 2>>
    /\ Called.samples = 1
    /\ Len(Called.vector) = HistoryLength + 1
    /\ Called.vector[1].den = 100
    /\ Called.vector[HistoryLength + 1] = Zero

\* a percentage
IsPercent(x) == 0 <= x /\ x <= 100

\* C26: for all inputs, a host memory size, a processor count or a time
\* since the previous sample of zero included, _recalculate_stats records a
\* sample, and the memory percent and the host CPU percent of every
\* recorded sample lie in [0,100].
C26_PercentClamped ==
    [][/\ \A i \in 1..Len(stats') :
             /\ IsPercent(stats'[i].memoryPercent)
             /\ IsPercent(stats'[i].cpuHostPercent)
       /\ (tick.pc = "stats" /\ tick.stats /\ backendOpen /\ tick'.pc = "done")
          => /\ ~tick'.raised
             /\ tick'.sampled
             /\ Len(stats') > 0]_vars

(***************************************************************************)
(* Claims checked under SpecRename.                                        *)
(***************************************************************************)
\* the latest call of rename_object got as far as define_cb(newxml), which
\* raised
RenameFailed ==
    /\ call # <<>>
    /\ call[1].op = "rename"
    /\ RenameSupported(call[1].obj.cls)
    /\ ~call[1].fails.delete
    /\ call[1].fails.new

\* C27: when define_cb(newxml) raises in rename_object, define_cb(origxml)
\* is called; if it raises too, an error carrying the messages of both
\* failures is raised; if it succeeds, the error of the rename is raised,
\* the object is rebound to the restored handle and no vm-renamed signal is
\* emitted.
C27_RenameRecovery ==
    RenameFailed
    => /\ call[1].defines = <<"newxml", "origxml">>
       /\ emitted = <<>>
       /\ IF call[1].fails.orig
          THEN /\ call[1].raised.kind = "RuntimeError"
               /\ {"renameerr", "fixerr"} \subseteq call[1].raised.msgs
               /\ call[1].handle = "original"
          ELSE /\ call[1].raised = RenameError
               /\ call[1].handle = "restored"
               /\ call[1].defined = "original"

\* the rename of a domain has failed and the original definition has been
\* restored
C27_Witness ==
    /\ RenameFailed
    /\ call[1].obj.cls = "vm"
    /\ ~call[1].fails.orig
    /\ call[1].raised = RenameError
    /\ call[1].handle = "restored"
    /\ emitted = <<>>

(***************************************************************************)
(* Further claims checked under Spec.                                      *)
(***************************************************************************)

\* C28: close() on a Disconnected connection, a second close() right after
\* a first included, emits no state-changed and no removed signal and
\* leaves the state Disconnected, the registry empty, the statistics empty
\* and the closing flag false.
C28_CloseIdempotent ==
    [][(state = "disconnected" /\ Closes)
       => /\ emitted' = <<>>
          /\ state' = "disconnected"
          /\ objects' = <<>>
          /\ stats' = <<>>
          /\ ~closing']_vars

\* _new_object_cb runs for the report at the head of the queue
Reports ==
    /\ mainQ # <<>>
    /\ Head(mainQ).kind = "new_object"
    /\ DeliverNewObject

\* what the step does with the report of a success or of a failure
ReportHandled ==
    LET o == Head(mainQ).obj
        k == BlacklistKey(o)
    IN  IF Head(mainQ).failed
        THEN /\ objects' = objects
             /\ emitted' = <<>>
             /\ blacklist'[k] > 0
             /\ \A q \in AllKeys \ {k} : blacklist'[q] = blacklist[q]
        ELSE /\ blacklist' = [blacklist EXCEPT ![k] = 0]
             /\ IF HasEntity(objects, o)
                THEN objects' = objects /\ emitted' = <<>>
                ELSE objects' = Append(objects, o) /\ emitted' = <<Added(o)>>

ReportDropped ==
    /\ objects' = objects
    /\ blacklist' = blacklist
    /\ emitted' = <<>>

\* C30: when a new entity reports initialization success its blacklist
\* entry is cleared, it is added to the registry and exactly one added
\* signal is emitted for it, unless an entity with the same (class,
\* connkey) is registered already, and then nothing is added or emitted;
\* when it reports failure it is neither added nor announced and only its
\* blacklist entry is written.
C30_ReportHandled == [][Reports => ReportHandled]_vars

\* C30, amended: the above holds for a report that is delivered while the
\* backend is open; a report delivered on a closed backend changes neither
\* the registry nor the blacklist and emits nothing.
C30_ReportHandledWhileOpen ==
    [][Reports => IF backendOpen THEN ReportHandled ELSE ReportDropped]_vars

\* a VM has just reported success on an open backend: it is tracked, added
\* has been emitted for it and it has no blacklist entry; a network has
\* reported failure before: it is not tracked and has a blacklist entry
C30_Witness ==
    /\ backendOpen
    /\ \E o \in Range(objects) :
          /\ o.cls = "vm"
          /\ emitted = <<Added(o)>>
          /\ blacklist[BlacklistKey(o)] = 0
    /\ \E k \in Keys :
          /\ blacklist[<<"net", k>>] > 0
          /\ \A o \in Range(objects) : BlacklistKey(o) # <<"net", k>>

\* C34: whenever the state is Active the backend is open; a close() that
\* runs while the connection is Connecting, or after the connect thread
\* has queued the change to Active and before that change is delivered,
\* leaves the state Disconnected, and the state does not become Active
\* from there without a new open().
C34_ActiveMeansOpen ==
    /\ [](state = "active" => backendOpen)
    /\ [][state = "disconnected" => state' # "active"]_vars

\* C36: after close() has returned the registry is empty and stays empty
\* while the state is Disconnected: no initializer that reports during or
\* after the close inserts an object or has an added signal emitted.
C36_EmptyWhileDisconnected ==
    state = "disconnected"
    => /\ objects = <<>>
       /\ \A n \in 1..Len(emitted) : emitted[n].sig # "added"

(***************************************************************************)
(* Further claims checked under SpecPoll.                                  *)
(***************************************************************************)
\* _new_object_cb runs for an object whose initialization failed, on an
\* open backend: the step that calls add_blacklist
AddsBlacklist ==
    /\ mainQ # <<>>
    /\ Head(mainQ).kind = "new_object"
    /\ Head(mainQ).failed
    /\ backendOpen
    /\ DeliverNewObject

StatsRequested(t) ==
    PassedEntry(t) /\ t.reqStats /\ "vm" \in t.reqPolls

Spawned ==
    {th \in initThreads' :
        \A old \in initThreads : old.cls # th.cls \/ old.tick # th.tick}

\* C33: a pass starts exactly one initializer thread for each class in
\* which it discovered a new object that is not blacklisted, and none for
\* the other classes, so at most five; in the initial poll no initializer
\* thread is started before the countdown has been seeded with the new
\* objects of all five classes.
C33_OneInitializerPerClass ==
    [][Spawned # {}
       => /\ tick.pc = "spawn"
          /\ \A c \in Classes :
                Cardinality({th \in Spawned : th.cls = c})
                   = IF tick.new[c] # <<>> THEN 1 ELSE 0
          /\ \A th \in Spawned : th.todo = tick.new[th.cls]
          /\ Cardinality(Spawned) <= Cardinality(Classes)
          /\ tick.initial
             => /\ tick.idx = Len(ClassOrder)
                /\ NewInPass(tick) \subseteq unreported[tick.owner]]_vars

\* the initial poll has discovered several VMs and a network, has counted
\* them all and has started one initializer thread for each of the two
\* classes, the one of the VMs with all of them to do
C33_Witness ==
    /\ tick.initial
    /\ tick.pc = "refresh"
    /\ initCount = <<NumKeys + 2>>
    /\ Cardinality(initThreads) = 2
    /\ \A c \in {"vm", "net"} :
          \E th \in initThreads : th.cls = c /\ th.tick = tick.id
                                   /\ th.todo = tick.new[c]
    /\ Len(tick.new["vm"]) = NumKeys + 1

(***************************************************************************)
(* SpecLive: Spec with the scheduling of the program.  The connect thread, *)
(* the tick thread and the initializer threads run whenever they can, and  *)
(* the main context runs the callbacks queued on it; open(), close() and   *)
(* the passes of the scheduler happen when the environment calls them.     *)
(***************************************************************************)
ProgramStep ==
    \/ DeliverClose(BOOLEAN)
    \/ DeliverChangeState
    \/ DeliverOpenCompleted
    \/ DeliverGone
    \/ DeliverNewObject
    \/ \E i \in Opens : OpenDoOpen(i)
    \/ \E i \in Opens : OpenPopulate(i, MainRegs, FALSE)
    \/ \E i \in Opens : OpenWait(i)
    \/ \E i \in Opens : OpenFinish(i)
    \/ TickInitial
    \/ TickInfo({FALSE}, PlainErrors)
    \/ TickPollClass(MainHost, {TRUE}, {FALSE}, PlainErrors)
    \/ TickSpawn
    \/ TickRefresh({"ok"}, PlainErrors)
    \/ TickStats(NominalInputs)
    \/ TickReturn
    \/ InitStep

LiveNext ==
    \/ Open(MaxOpens)
    \/ Close(BOOLEAN)
    \/ TickEnv(MainTickArgs, MaxTicks)
    \/ ProgramStep

SpecLive == Init /\ [][LiveNext]_vars /\ WF_vars(ProgramStep)

(***************************************************************************)
(* Claims checked under SpecLive.                                          *)
(***************************************************************************)
\* open-completed is emitted for the connect thread of open() number i
OpenCompletedFor(i) == \E e \in OpenErrors : InList(emitted, OpenCompleted(i, e))

\* C35: every open() that moves the state to Connecting, and so starts a
\* connect thread, is eventually followed by the open-completed signal of
\* that thread, also when the initial tick raises before it seeds or
\* releases the countdown and when close() runs while the thread waits on
\* the countdown.
C35_OpenCompletes ==
    \A i \in Opens : (othr[i].pc = "do_open") ~> OpenCompletedFor(i)

(***************************************************************************)
(* Claims checked under SpecGone.                                          *)
(***************************************************************************)
\* the signals of kind sig that the step emits
EmittedNow(sig) ==
    {emitted'[n].obj : n \in {m \in 1..Len(emitted') : emitted'[m].sig = sig}}

\* C37: for each (class, connkey) the added and the removed signals
\* alternate, starting with added: removed is never emitted for an entity
\* whose added was not emitted, nor twice for one addition.  The registry
\* holds the entities whose added signal was the last one emitted for
\* them: added is emitted only for an object that enters the registry and
\* whose entity was not in it, removed only for an object that leaves it.
C37_AddedRemovedAlternate ==
    [][/\ \A o \in EmittedNow("added") :
             ~HasEntity(objects, o) /\ InList(objects', o)
       /\ \A o \in EmittedNow("removed") :
             /\ InList(objects, o) /\ ~InList(objects', o)
             /\ Cardinality({n \in 1..Len(emitted') :
                               emitted'[n] = Removed(o)}) = 1]_vars

=============================================================================
